---- MODULE Spec2Model ----
(***************************************************************************)
(* A model of the location-processing engine of server/processing.py and   *)
(* of the handlers of server/api.py and server/pages.py that drive it.     *)
(*                                                                         *)
(* Abstractions, stated once:                                              *)
(*  - Time is counted in ticks of 1/TicksPerSec second, so that the        *)
(*    truncation int(total_seconds()) is visible.                          *)
(*  - All points lie on one meridian.  A latitude is a whole number of     *)
(*    coordinate units, Scale units to the metre, and haversine_m on a     *)
(*    meridian is the absolute difference.  Raw points sit on whole        *)
(*    metres; Scale makes every running mean of as many such points as     *)
(*    the bounds allow a whole number of units, so centroids are exact.    *)
(*  - An optional column (None in Python) is the empty sequence, a value   *)
(*    v is <<v>>.                                                          *)
(***************************************************************************)
EXTENDS Integers, Sequences, FiniteSets, TLC

VARIABLES
    locations,   \* device -> its Location rows, in ORDER BY timestamp order
    visits,      \* the Visit table, in insertion (id) order
    places,      \* the Place table: a set of rows with their id
    config,      \* the Config table: threshold key -> value
    last,        \* what the last handler did (observation of its return value)
    nominatim,   \* the geocoder gate: clock, _last_nominatim_call, its callers
    arg,         \* harness: the argument list handed to a pure function
    thr,         \* harness: the threshold dict handed to it
    ret,         \* harness: the list it returned
    clusters,    \* harness: the clusters detect_visits closed, in order
    called       \* harness: which function has been applied

vars == <<locations, visits, places, config, last, nominatim, arg, thr, ret,
          clusters, called>>

-----------------------------------------------------------------------------
(* Bounds of the model *)

MaxLen == 4
MaxTime == 6
TicksPerSec == 2

\* The lists handed to the pure functions: their length and latest time.
MaxList == 3
MaxListTime == 4
MaxVisitTime == 2

\* Caps on what grows without limit: the rowid a regeneration hands out and
\* the counter a repeated per-device reprocess keeps incrementing.
MaxPlaceId == 3
MaxVisitCount == 2

\* How long the geocoder gate is watched, in tenths of a second.
MaxClock == 12

\* The points of a commute trace.
MaxTrace == 8

RECURSIVE Factorial(_)
Factorial(n) == IF n <= 1 THEN 1 ELSE n * Factorial(n - 1)

Scale == Factorial(IF MaxLen >= MaxList THEN MaxLen ELSE MaxList)

Times == 0..MaxTime

-----------------------------------------------------------------------------
(* Configuration: processing.py module constants and database.py defaults *)

MAX_HORIZONTAL_ACCURACY_M == 100
MAX_SPEED_MS == 85
MIN_POINT_INTERVAL_S == 2
VISIT_RADIUS_M == 50
MIN_VISIT_DURATION_S == 300
PLACE_SNAP_RADIUS_M == 80
VISIT_MERGE_GAP_S == 180

\* The 1.1 s between two Nominatim requests, in tenths of a second.
NOMINATIM_INTERVAL == 11

ModuleDefaults ==
    [max_horizontal_accuracy_m |-> MAX_HORIZONTAL_ACCURACY_M,
     max_speed_ms              |-> MAX_SPEED_MS,
     min_point_interval_s      |-> MIN_POINT_INTERVAL_S,
     visit_radius_m            |-> VISIT_RADIUS_M,
     min_visit_duration_s      |-> MIN_VISIT_DURATION_S,
     place_snap_radius_m       |-> PLACE_SNAP_RADIUS_M]

\* A threshold set an administrator can save: stays of one second count.
QuickThresholds ==
    [ModuleDefaults EXCEPT !.min_point_interval_s = 1,
                           !.min_visit_duration_s = 1]

\* A threshold dict a caller can pass: no spacing, no minimum stay.
ZeroThresholds ==
    [ModuleDefaults EXCEPT !.min_point_interval_s = 0,
                           !.min_visit_duration_s = 0]

ThresholdSets == {ModuleDefaults, QuickThresholds, ZeroThresholds}

-----------------------------------------------------------------------------
(* Geo math *)

Abs(x) == IF x < 0 THEN -x ELSE x

\* haversine_m restricted to one meridian, in coordinate units.
haversine_m(lat1, lat2) == Abs(lat2 - lat1)

\* A threshold in metres, in coordinate units.
Metres(m) == m * Scale

\* A threshold in seconds, in ticks.
Seconds(s) == s * TicksPerSec

\* (b - a).total_seconds() followed by int(): truncation toward zero.
WholeSeconds(ticks) ==
    IF ticks >= 0 THEN ticks \div TicksPerSec ELSE -((-ticks) \div TicksPerSec)

-----------------------------------------------------------------------------
(* Step 1: GPS error filtering *)

\* sorted(points, key=timestamp): stable, so a point goes after its equals.
RECURSIVE InsertByTimestamp(_, _)
InsertByTimestamp(s, p) ==
    IF s = <<>> THEN <<p>>
    ELSE IF p.timestamp < Head(s).timestamp THEN <<p>> \o s
    ELSE <<Head(s)>> \o InsertByTimestamp(Tail(s), p)

RECURSIVE SortedByTimestamp(_)
SortedByTimestamp(points) ==
    IF points = <<>> THEN <<>>
    ELSE InsertByTimestamp(SortedByTimestamp(SubSeq(points, 1, Len(points) - 1)),
                           points[Len(points)])

\* The accuracy check with >= for >.
AccuracyRejectsAtLimit(pt, max_acc) ==
    pt.horizontal_accuracy # <<>> /\ pt.horizontal_accuracy[1] >= max_acc

AccuracyRejects(pt, max_acc) ==
    pt.horizontal_accuracy # <<>> /\ pt.horizontal_accuracy[1] > max_acc

SpeedRejects(pt, max_spd) ==
    pt.speed # <<>> /\ pt.speed[1] > max_spd

\* The interval check with <= for <.
IntervalRejectsAtLimit(pt, last_ts, min_interval) ==
    last_ts # <<>> /\ pt.timestamp - last_ts[1] <= Seconds(min_interval)

\* last_ts is <<>> (None) or <<ts>>.
IntervalRejects(pt, last_ts, min_interval) ==
    last_ts # <<>> /\ pt.timestamp - last_ts[1] < Seconds(min_interval)

\* The loop putting each kept point before the others, not after.
RECURSIVE FilterLoopPrepending(_, _, _, _)
FilterLoopPrepending(rest, filtered, last_ts, th) ==
    IF rest = <<>> THEN filtered
    ELSE LET pt == Head(rest) IN
         IF AccuracyRejects(pt, th.max_horizontal_accuracy_m)
            THEN FilterLoopPrepending(Tail(rest), filtered, last_ts, th)
         ELSE IF SpeedRejects(pt, th.max_speed_ms)
            THEN FilterLoopPrepending(Tail(rest), filtered, last_ts, th)
         ELSE IF IntervalRejects(pt, last_ts, th.min_point_interval_s)
            THEN FilterLoopPrepending(Tail(rest), filtered, last_ts, th)
         ELSE FilterLoopPrepending(Tail(rest), <<pt>> \o filtered, <<pt.timestamp>>, th)

RECURSIVE FilterLoop(_, _, _, _)
FilterLoop(rest, filtered, last_ts, th) ==
    IF rest = <<>> THEN filtered
    ELSE LET pt == Head(rest) IN
         IF AccuracyRejects(pt, th.max_horizontal_accuracy_m)
            THEN FilterLoop(Tail(rest), filtered, last_ts, th)
         ELSE IF SpeedRejects(pt, th.max_speed_ms)
            THEN FilterLoop(Tail(rest), filtered, last_ts, th)
         ELSE IF IntervalRejects(pt, last_ts, th.min_point_interval_s)
            THEN FilterLoop(Tail(rest), filtered, last_ts, th)
         ELSE FilterLoop(Tail(rest), Append(filtered, pt), <<pt.timestamp>>, th)

filter_gps_errors(points, th) ==
    IF points = <<>> THEN <<>>
    ELSE FilterLoop(SortedByTimestamp(points), <<>>, <<>>, th)

-----------------------------------------------------------------------------
(* Step 2: visit detection *)

\* _maybe_emit_visit without its test of the cluster's size.
EmitAnySize(cluster, centroid_lat, vs, min_duration) ==
    LET arrival   == cluster[1].timestamp
        departure == cluster[Len(cluster)].timestamp
        duration  == departure - arrival
    IN IF duration >= Seconds(min_duration)
       THEN Append(vs, [latitude         |-> centroid_lat,
                        arrival          |-> arrival,
                        departure        |-> departure,
                        duration_seconds |-> WholeSeconds(duration)])
       ELSE vs

\* _maybe_emit_visit without its test of the duration.
EmitAnyDuration(cluster, centroid_lat, vs, min_duration) ==
    IF Len(cluster) < 2 THEN vs
    ELSE LET arrival   == cluster[1].timestamp
             departure == cluster[Len(cluster)].timestamp
         IN Append(vs, [latitude         |-> centroid_lat,
                        arrival          |-> arrival,
                        departure        |-> departure,
                        duration_seconds |-> WholeSeconds(departure - arrival)])

\* _maybe_emit_visit putting the visit in front of the list.
EmitInFront(cluster, centroid_lat, vs, min_duration) ==
    IF Len(cluster) < 2 THEN vs
    ELSE LET arrival   == cluster[1].timestamp
             departure == cluster[Len(cluster)].timestamp
             duration  == departure - arrival
         IN IF duration >= Seconds(min_duration)
            THEN <<[latitude         |-> centroid_lat,
                    arrival          |-> arrival,
                    departure        |-> departure,
                    duration_seconds |-> WholeSeconds(duration)]>> \o vs
            ELSE vs

\* _maybe_emit_visit: the visits list after the call.
maybe_emit_visit(cluster, centroid_lat, vs, min_duration) ==
    IF Len(cluster) < 2 THEN vs
    ELSE LET arrival   == cluster[1].timestamp
             departure == cluster[Len(cluster)].timestamp
             duration  == departure - arrival
         IN IF duration >= Seconds(min_duration)
            THEN Append(vs, [latitude         |-> centroid_lat,
                             arrival          |-> arrival,
                             departure        |-> departure,
                             duration_seconds |-> WholeSeconds(duration)])
            ELSE vs

\* The loop of detect_visits measuring from the cluster's latest point
\* instead of its centroid.
RECURSIVE DetectLoopFromLatest(_, _, _, _, _, _)
DetectLoopFromLatest(rest, cluster, cx, vs, closed, th) ==
    IF rest = <<>>
    THEN [visits |-> maybe_emit_visit(cluster, cx, vs, th.min_visit_duration_s),
          closed |-> Append(closed, cluster)]
    ELSE LET pt   == Head(rest)
             dist == haversine_m(cluster[Len(cluster)].latitude, pt.latitude)
         IN IF dist <= Metres(th.visit_radius_m)
            THEN LET n == Len(cluster) + 1
                 IN DetectLoopFromLatest(Tail(rest), Append(cluster, pt),
                                         cx + (pt.latitude - cx) \div n, vs, closed, th)
            ELSE DetectLoopFromLatest(Tail(rest), <<pt>>, pt.latitude,
                                      maybe_emit_visit(cluster, cx, vs, th.min_visit_duration_s),
                                      Append(closed, cluster), th)

\* The loop of detect_visits without the call that follows it.
RECURSIVE DetectLoopUnflushed(_, _, _, _, _, _)
DetectLoopUnflushed(rest, cluster, cx, vs, closed, th) ==
    IF rest = <<>>
    THEN [visits |-> vs, closed |-> Append(closed, cluster)]
    ELSE LET pt   == Head(rest)
             dist == haversine_m(cx, pt.latitude)
         IN IF dist <= Metres(th.visit_radius_m)
            THEN LET n == Len(cluster) + 1
                 IN DetectLoopUnflushed(Tail(rest), Append(cluster, pt),
                                        cx + (pt.latitude - cx) \div n, vs, closed, th)
            ELSE DetectLoopUnflushed(Tail(rest), <<pt>>, pt.latitude,
                                     maybe_emit_visit(cluster, cx, vs, th.min_visit_duration_s),
                                     Append(closed, cluster), th)

\* The loop of detect_visits and its last call; the result carries, beside
\* the visits, every cluster handed to _maybe_emit_visit.
RECURSIVE DetectLoop(_, _, _, _, _, _)
DetectLoop(rest, cluster, cx, vs, closed, th) ==
    IF rest = <<>>
    THEN [visits |-> maybe_emit_visit(cluster, cx, vs, th.min_visit_duration_s),
          closed |-> Append(closed, cluster)]
    ELSE LET pt   == Head(rest)
             dist == haversine_m(cx, pt.latitude)
         IN IF dist <= Metres(th.visit_radius_m)
            THEN LET n == Len(cluster) + 1
                 IN DetectLoop(Tail(rest), Append(cluster, pt),
                               cx + (pt.latitude - cx) \div n, vs, closed, th)
            ELSE DetectLoop(Tail(rest), <<pt>>, pt.latitude,
                            maybe_emit_visit(cluster, cx, vs, th.min_visit_duration_s),
                            Append(closed, cluster), th)

DetectRun(points, th) ==
    IF Len(points) < 2 THEN [visits |-> <<>>, closed |-> <<>>]
    ELSE DetectLoop(Tail(points), <<points[1]>>, points[1].latitude, <<>>, <<>>, th)

detect_visits(points, th) == DetectRun(points, th).visits

-----------------------------------------------------------------------------
(* Visit merging: processing.py under src/ defines no merge_nearby_visits;  *)
(* it is modelled from section 4.3 of the specification and the tests.     *)

MergeDefaults ==
    [visit_radius_m |-> VISIT_RADIUS_M, visit_merge_gap_s |-> VISIT_MERGE_GAP_S]

Max(a, b) == IF a >= b THEN a ELSE b

\* The merge that moves the open visit's centroid to the visit merged in.
MergeIntoMovingCentroid(open, v) ==
    LET departure == Max(open.departure, v.departure)
    IN [open EXCEPT !.latitude = v.latitude,
                    !.departure = departure,
                    !.duration_seconds = WholeSeconds(departure - open.arrival)]

MergeInto(open, v) ==
    LET departure == Max(open.departure, v.departure)
    IN [open EXCEPT !.departure = departure,
                    !.duration_seconds = WholeSeconds(departure - open.arrival)]

\* The merge test with < for <= on the gap.
MergeableStrictGap(open, v, th) ==
    /\ haversine_m(open.latitude, v.latitude) <= Metres(th.visit_radius_m)
    /\ v.arrival - open.departure < Seconds(th.visit_merge_gap_s)

Mergeable(open, v, th) ==
    /\ haversine_m(open.latitude, v.latitude) <= Metres(th.visit_radius_m)
    /\ v.arrival - open.departure <= Seconds(th.visit_merge_gap_s)

RECURSIVE MergeLoop(_, _, _, _)
MergeLoop(rest, open, merged, th) ==
    IF rest = <<>> THEN Append(merged, open)
    ELSE IF Mergeable(open, Head(rest), th)
         THEN MergeLoop(Tail(rest), MergeInto(open, Head(rest)), merged, th)
         ELSE MergeLoop(Tail(rest), Head(rest), Append(merged, open), th)

merge_nearby_visits(vs, th) ==
    IF Len(vs) <= 1 THEN vs
    ELSE MergeLoop(Tail(vs), Head(vs), <<>>, th)

-----------------------------------------------------------------------------
(* Users and devices (a fixed fleet) *)

Users == {"u1", "u2"}
Devices == {"d1", "d2", "d3"}

\* Device.user_id
Owner == [d \in Devices |-> IF d = "d3" THEN "u2" ELSE "u1"]

\* db.query(Device).filter(Device.user_id == user_id).all(), in id order
DevicesOf(u) ==
    SelectSeq(<<"d1", "d2", "d3">>, LAMBDA d : Owner[d] = u)

-----------------------------------------------------------------------------
(* The Config table *)

ThresholdKeys ==
    {"max_horizontal_accuracy_m", "max_speed_ms", "min_point_interval_s",
     "visit_radius_m", "min_visit_duration_s", "place_snap_radius_m"}

\* _seed_config: DEFAULT_THRESHOLDS
SeededConfig ==
    [max_horizontal_accuracy_m |-> MAX_HORIZONTAL_ACCURACY_M,
     max_speed_ms              |-> MAX_SPEED_MS,
     min_point_interval_s      |-> MIN_POINT_INTERVAL_S,
     visit_radius_m            |-> VISIT_RADIUS_M,
     min_visit_duration_s      |-> MIN_VISIT_DURATION_S,
     place_snap_radius_m       |-> PLACE_SNAP_RADIUS_M,
     visit_merge_gap_s         |-> VISIT_MERGE_GAP_S]

\* What the administrator saves in the model: stays of one second count.
QuickConfig ==
    [SeededConfig EXCEPT !.min_point_interval_s = 1,
                         !.min_visit_duration_s = 1]

ConfigChoices == {SeededConfig, QuickConfig}

get_thresholds(cfg) ==
    [k \in ThresholdKeys |-> IF k \in DOMAIN cfg THEN cfg[k] ELSE ModuleDefaults[k]]

-----------------------------------------------------------------------------
(* Step 3: place snapping *)

\* The Place query without its user filter.
PlacesOfAnyUser(ps, user_id) == ps

PlacesOf(ps, user_id) == {p \in ps : p.user_id = user_id}

\* The scan keeps the first place of strictly smaller distance; rows come in
\* id order, so among equidistant places the one of smallest id stays.
NearestPlace(candidates, lat) ==
    CHOOSE p \in candidates :
        \A q \in candidates :
            \/ haversine_m(lat, p.latitude) < haversine_m(lat, q.latitude)
            \/ /\ haversine_m(lat, p.latitude) = haversine_m(lat, q.latitude)
               /\ p.id <= q.id

\* The id db.flush() gives a new row: one more than the largest rowid.
NextPlaceId(ps) ==
    IF ps = {} THEN 1
    ELSE 1 + (CHOOSE i \in {p.id : p \in ps} : \A p \in ps : p.id <= i)

\* snap_to_place with < for <= on the snap radius.
SnapStrictlyInside(ps, user_id, lat, th) ==
    LET mine == PlacesOf(ps, user_id)
    IN IF mine # {} /\ haversine_m(lat, NearestPlace(mine, lat).latitude)
                         < Metres(th.place_snap_radius_m)
       THEN [place |-> NearestPlace(mine, lat), places |-> ps]
       ELSE LET new_place == [id |-> NextPlaceId(ps),
                              user_id |-> user_id,
                              latitude |-> lat,
                              address |-> <<>>,
                              visit_count |-> 0,
                              total_duration_seconds |-> 0]
            IN [place |-> new_place, places |-> ps \cup {new_place}]

\* snap_to_place reaching half as far as place_snap_radius_m.
SnapWithinHalfRadius(ps, user_id, lat, th) ==
    LET mine == PlacesOf(ps, user_id)
    IN IF mine # {} /\ 2 * haversine_m(lat, NearestPlace(mine, lat).latitude)
                         <= Metres(th.place_snap_radius_m)
       THEN [place |-> NearestPlace(mine, lat), places |-> ps]
       ELSE LET new_place == [id |-> NextPlaceId(ps),
                              user_id |-> user_id,
                              latitude |-> lat,
                              address |-> <<>>,
                              visit_count |-> 0,
                              total_duration_seconds |-> 0]
            IN [place |-> new_place, places |-> ps \cup {new_place}]

\* The returned place and the Place table after the call.
snap_to_place(ps, user_id, lat, th) ==
    LET mine == PlacesOf(ps, user_id)
    IN IF mine # {} /\ haversine_m(lat, NearestPlace(mine, lat).latitude)
                         <= Metres(th.place_snap_radius_m)
       THEN [place |-> NearestPlace(mine, lat), places |-> ps]
       ELSE LET new_place == [id |-> NextPlaceId(ps),
                              user_id |-> user_id,
                              latitude |-> lat,
                              address |-> <<>>,
                              visit_count |-> 0,
                              total_duration_seconds |-> 0]
            IN [place |-> new_place, places |-> ps \cup {new_place}]

-----------------------------------------------------------------------------
(* Full pipeline *)

\* datetime.datetime.min
DatetimeMin == -1

\* A since that is always the beginning of time.
SinceTheBeginning(vs) == DatetimeMin

RECURSIVE MaxDeparture(_)
MaxDeparture(vs) ==
    IF vs = <<>> THEN DatetimeMin
    ELSE Max(Head(vs).departure, MaxDeparture(Tail(vs)))

VisitsOf(vs, device_id) == SelectSeq(vs, LAMBDA v : v.device_id = device_id)

\* PersistSnapped that asks the geocoder every time and stores what it says.
PersistRegeocoding(snap, new_visits, v, device_id, geo) ==
    LET place   == snap.place
        updated == [place EXCEPT
                      !.address = geo,
                      !.visit_count = @ + 1,
                      !.total_duration_seconds = @ + v.duration_seconds]
    IN [places     |-> (snap.places \ {place}) \cup {updated},
        new_visits |-> Append(new_visits,
                              [device_id |-> device_id,
                               place_id |-> place.id,
                               latitude |-> v.latitude,
                               arrival |-> v.arrival,
                               departure |-> v.departure,
                               duration_seconds |-> v.duration_seconds,
                               address |-> geo])]

\* PersistSnapped that gives up the visit when there is no address for it.
PersistGeocodedOnly(snap, new_visits, v, device_id, geo) ==
    LET place   == snap.place
        address == IF place.address = <<>> THEN geo ELSE place.address
        updated == [place EXCEPT
                      !.address = address,
                      !.visit_count = @ + 1,
                      !.total_duration_seconds = @ + v.duration_seconds]
    IN IF address = <<>>
       THEN [places |-> snap.places, new_visits |-> new_visits]
       ELSE [places     |-> (snap.places \ {place}) \cup {updated},
             new_visits |-> Append(new_visits,
                                   [device_id |-> device_id,
                                    place_id |-> place.id,
                                    latitude |-> v.latitude,
                                    arrival |-> v.arrival,
                                    departure |-> v.departure,
                                    duration_seconds |-> v.duration_seconds,
                                    address |-> address])]

\* Steps 3 and 4 of _process_locations_since for one candidate visit v, once
\* snap_to_place has answered: the session's places and new_visits after it.
\* geo is what reverse_geocode answers if it is asked (<<>> for None).
PersistSnapped(snap, new_visits, v, device_id, geo) ==
    LET place   == snap.place
        address == IF place.address = <<>> THEN geo ELSE place.address
        updated == [place EXCEPT
                      !.address = address,
                      !.visit_count = @ + 1,
                      !.total_duration_seconds = @ + v.duration_seconds]
    IN [places     |-> (snap.places \ {place}) \cup {updated},
        new_visits |-> Append(new_visits,
                              [device_id |-> device_id,
                               place_id |-> place.id,
                               latitude |-> v.latitude,
                               arrival |-> v.arrival,
                               departure |-> v.departure,
                               duration_seconds |-> v.duration_seconds,
                               address |-> address])]

\* done holds the session's places and new_visits so far.
PersistOne(done, v, device_id, user_id, th, geo) ==
    PersistSnapped(snap_to_place(done.places, user_id, v.latitude, th),
                   done.new_visits, v, device_id, geo)

RECURSIVE PersistLoop(_, _, _, _, _, _)
PersistLoop(raw_visits, done, device_id, user_id, th, geo) ==
    IF raw_visits = <<>> THEN done
    ELSE PersistLoop(Tail(raw_visits),
                     PersistOne(done, Head(raw_visits), device_id, user_id, th, Head(geo)),
                     device_id, user_id, th, Tail(geo))

\* Candidates that also takes the rows at since.
CandidatesFromSince(rows, since, th) ==
    detect_visits(
        filter_gps_errors(SelectSeq(rows, LAMBDA loc : loc.timestamp >= since), th),
        th)

\* The candidate visits of one invocation.
Candidates(rows, since, th) ==
    detect_visits(
        filter_gps_errors(SelectSeq(rows, LAMBDA loc : loc.timestamp > since), th),
        th)

\* db.commit(): the tables after it, and the returned list.
Committed(vs, done) ==
    [visits     |-> vs \o done.new_visits,
     places     |-> done.places,
     new_visits |-> done.new_visits]

\* _process_locations_since
process_locations_since(rows, vs, ps, device_id, user_id, since, th, geo) ==
    Committed(vs, PersistLoop(Candidates(rows, since, th),
                              [places |-> ps, new_visits |-> <<>>],
                              device_id, user_id, th, geo))

process_device_locations(rows, vs, ps, cfg, device_id, user_id, geo) ==
    process_locations_since(rows, vs, ps, device_id, user_id,
                            MaxDeparture(VisitsOf(vs, device_id)),
                            get_thresholds(cfg), geo)

\* reprocess_all after its deletes: one invocation per device, in query order,
\* each on the tables (visits, places) the one before left.  geoOf[d] holds
\* the geocoder's answers to the invocation for device d.
RECURSIVE ReprocessDevices(_, _, _, _, _, _)
ReprocessDevices(devs, locs, tables, user_id, th, geoOf) ==
    IF devs = <<>> THEN tables
    ELSE ReprocessDevices(Tail(devs), locs,
                          process_locations_since(locs[Head(devs)], tables.visits,
                                                  tables.places, Head(devs), user_id,
                                                  DatetimeMin, th, geoOf[Head(devs)]),
                          user_id, th, geoOf)

\* The tables after reprocess_all and the counts it returns; kept are the
\* visits its delete left.
Regenerated(kept, tables, user_id) ==
    [visits         |-> tables.visits,
     places         |-> tables.places,
     visits_created |-> Len(tables.visits) - Len(kept),
     places_created |-> Cardinality(PlacesOf(tables.places, user_id))]

\* reprocess_all with a delete of every user's places.
ReprocessDeletingAllPlaces(locs, vs, ps, cfg, user_id, geoOf) ==
    Regenerated(SelectSeq(vs, LAMBDA v : Owner[v.device_id] # user_id),
                ReprocessDevices(DevicesOf(user_id), locs,
                                 [visits |-> SelectSeq(vs, LAMBDA v : Owner[v.device_id] # user_id),
                                  places |-> {}],
                                 user_id, get_thresholds(cfg), geoOf),
                user_id)

\* reprocess_all without its delete of the user's places.
ReprocessKeepingPlaces(locs, vs, ps, cfg, user_id, geoOf) ==
    Regenerated(SelectSeq(vs, LAMBDA v : Owner[v.device_id] # user_id),
                ReprocessDevices(DevicesOf(user_id), locs,
                                 [visits |-> SelectSeq(vs, LAMBDA v : Owner[v.device_id] # user_id),
                                  places |-> ps],
                                 user_id, get_thresholds(cfg), geoOf),
                user_id)

reprocess_all(locs, vs, ps, cfg, user_id, geoOf) ==
    Regenerated(SelectSeq(vs, LAMBDA v : Owner[v.device_id] # user_id),
                ReprocessDevices(DevicesOf(user_id), locs,
                                 [visits |-> SelectSeq(vs, LAMBDA v : Owner[v.device_id] # user_id),
                                  places |-> {p \in ps : p.user_id # user_id}],
                                 user_id, get_thresholds(cfg), geoOf),
                user_id)

-----------------------------------------------------------------------------
(* Inputs *)

\* Where a device can be, in metres along the meridian.
PositionsM == {0, 50, 100}

\* An uploaded LocationPoint: the optional columns are left out.
UploadPoints ==
    [timestamp : Times,
     latitude : {Metres(m) : m \in PositionsM},
     horizontal_accuracy : {<<>>},
     speed : {<<>>}]

\* A request carries no point or one; a longer batch is what the same
\* uploads leave behind while the seeded thresholds detect nothing.
Batches == {<<>>} \cup {<<pt>> : pt \in UploadPoints}

\* The fleet's requests: whole seconds at the two far ends.
FleetPoints ==
    {pt \in UploadPoints : /\ pt.timestamp \in {0, Seconds(1)}
                           /\ pt.latitude \in {Metres(0), Metres(100)}}

FleetBatches == {<<>>} \cup {<<pt>> : pt \in FleetPoints}

\* What reverse_geocode returns: None or a display name.
GeoAnswers == {<<>>, <<"address">>}

GeoRuns(n) == [1..n -> GeoAnswers]

\* The geocoder answers every time.
AllAnswers(n) == [i \in 1..n |-> <<"address">>]

\* The geocoder fails every time.
NoAnswers(n) == [i \in 1..n |-> <<>>]

RECURSIVE InsertRows(_, _)
InsertRows(rows, batch) ==
    IF batch = <<>> THEN rows
    ELSE InsertRows(InsertByTimestamp(rows, Head(batch)), Tail(batch))

TotalRows(locs) ==
    Len(locs["d1"]) + Len(locs["d2"]) + Len(locs["d3"])

HarnessIdle == <<nominatim, arg, thr, ret, clusters, called>>

WithinCaps(ps) ==
    \A p \in ps : p.id <= MaxPlaceId /\ p.visit_count <= MaxVisitCount

-----------------------------------------------------------------------------
(* Handlers.  last observes the handler that ran last: dev, the device it   *)
(* ran process_device_locations on ("none" otherwise); ret, how many        *)
(* visits it returned, which are the last ret rows of the Visit table;     *)
(* again, whether it ran process_device_locations on the device the        *)
(* handler before it had just processed, with no row added.                *)

\* What a handler leaves after process_device_locations returned run.
Processed(d, run, again) ==
    /\ WithinCaps(run.places)
    /\ visits' = run.visits
    /\ places' = run.places
    /\ last' = [dev |-> d, ret |-> Len(run.new_visits), again |-> again]

\* api.upload_locations: store the batch, then process the device.
UploadLocations(d, batch, geo) ==
    /\ TotalRows(locations) + Len(batch) <= MaxLen
    /\ locations' = [locations EXCEPT ![d] = InsertRows(locations[d], batch)]
    /\ Processed(d,
                 process_device_locations(InsertRows(locations[d], batch), visits,
                                          places, config, d, Owner[d], geo),
                 batch = <<>> /\ last.dev = d)
    /\ UNCHANGED <<config, HarnessIdle>>

\* api.reprocess_visits: delete the device's visits, then process the device.
ReprocessVisits(d, geo) ==
    /\ Processed(d,
                 process_device_locations(
                     locations[d], SelectSeq(visits, LAMBDA v : v.device_id # d),
                     places, config, d, Owner[d], geo),
                 FALSE)
    /\ UNCHANGED <<locations, config, HarnessIdle>>

\* What the regenerate button leaves after reprocess_all returned run.
AllProcessed(run) ==
    /\ WithinCaps(run.places)
    /\ visits' = run.visits
    /\ places' = run.places
    /\ last' = [dev |-> "none", ret |-> run.visits_created, again |-> FALSE]

\* processing.reprocess_all, as the regenerate button calls it.
ReprocessAll(u, geoOf) ==
    /\ AllProcessed(reprocess_all(locations, visits, places, config, u, geoOf))
    /\ UNCHANGED <<locations, config, HarnessIdle>>

\* pages.save_thresholds (and reset_defaults, which saves the seeded values).
SaveThresholds(c) ==
    /\ c # config
    /\ config' = c
    /\ last' = [dev |-> "none", ret |-> 0, again |-> FALSE]
    /\ UNCHANGED <<locations, visits, places, HarnessIdle>>

\* The candidates an invocation for d will see, to count the geocoder's answers.
PendingCandidates(rows, vs, d) ==
    Candidates(rows, MaxDeparture(VisitsOf(vs, d)), get_thresholds(config))

FreshCandidates(d) ==
    Candidates(locations[d], DatetimeMin, get_thresholds(config))

-----------------------------------------------------------------------------
(* The pipeline's specifications *)

\* The threads that run reverse_geocode: FastAPI serves the synchronous
\* upload_locations and reprocess_visits from a thread pool.
Callers == {"t1", "t2"}

\* The module as imported: _last_nominatim_call = 0.0 on the epoch clock,
\* which is more than the interval before the process starts (tenth 0).
GeocoderOff ==
    nominatim = [now       |-> 0,
                 last_call |-> 0 - NOMINATIM_INTERVAL,
                 pc        |-> [c \in Callers |-> "idle"],
                 wake      |-> [c \in Callers |-> 0],
                 sent      |-> <<>>]

HarnessOff ==
    /\ GeocoderOff
    /\ arg = <<>>
    /\ thr = ModuleDefaults
    /\ ret = <<>>
    /\ clusters = <<>>
    /\ called = "none"

Init ==
    /\ locations = [d \in Devices |-> <<>>]
    /\ visits = <<>>
    /\ places = {}
    /\ config = SeededConfig
    /\ last = [dev |-> "none", ret |-> 0, again |-> FALSE]
    /\ HarnessOff

Upload(ds, batches) ==
    \E d \in ds, batch \in batches :
        \E geo \in GeoRuns(Len(PendingCandidates(InsertRows(locations[d], batch), visits, d))) :
            UploadLocations(d, batch, geo)

\* A device that reports in order: each point is later than its rows.
InOrder(d, batch) ==
    IF batch = <<>> \/ locations[d] = <<>> THEN TRUE
    ELSE batch[1].timestamp > locations[d][Len(locations[d])].timestamp

UploadInOrder(ds, batches) ==
    \E d \in ds, batch \in batches :
        /\ InOrder(d, batch)
        /\ \E geo \in GeoRuns(Len(PendingCandidates(InsertRows(locations[d], batch), visits, d))) :
              UploadLocations(d, batch, geo)

Reprocess(ds) ==
    \E d \in ds :
        \E geo \in GeoRuns(Len(PendingCandidates(locations[d],
                                 SelectSeq(visits, LAMBDA v : v.device_id # d), d))) :
            ReprocessVisits(d, geo)

\* One answer per candidate visit of each device of the user.
GeoNeeded(u, d) == IF Owner[d] = u THEN Len(FreshCandidates(d)) ELSE 0

Regenerate(us) ==
    \E u \in us :
        \E g1 \in GeoRuns(GeoNeeded(u, "d1")),
           g2 \in GeoRuns(GeoNeeded(u, "d2")),
           g3 \in GeoRuns(GeoNeeded(u, "d3")) :
            ReprocessAll(u, [d \in Devices |->
                                IF d = "d1" THEN g1 ELSE IF d = "d2" THEN g2 ELSE g3])

Configure == \E c \in ConfigChoices : SaveThresholds(c)

\* One device of one user that reports in order, every time and position.
Next ==
    \/ UploadInOrder({"d1"}, Batches)
    \/ Reprocess({"d1"})
    \/ Regenerate({"u1"})
    \/ Configure

Spec == Init /\ [][Next]_vars

\* Three devices of two users, coarse inputs in any order.
NextFleet ==
    \/ Upload(Devices, FleetBatches)
    \/ Reprocess(Devices)
    \/ Regenerate(Users)
    \/ Configure

SpecFleet == Init /\ [][NextFleet]_vars

-----------------------------------------------------------------------------
(* The pure functions, each applied once to an argument drawn by Init *)

PipelineIdle == <<locations, visits, places, config, last, nominatim>>

PipelineOff ==
    /\ locations = [d \in Devices |-> <<>>]
    /\ visits = <<>>
    /\ places = {}
    /\ config = SeededConfig
    /\ last = [dev |-> "none", ret |-> 0, again |-> FALSE]
    /\ GeocoderOff

ListTimes == 0..MaxListTime
VisitTimes == 0..MaxVisitTime

ListsOf(S) == UNION {[1..n -> S] : n \in 0..MaxList}

\* Points as a caller may pass them: columns absent, at the limit, beyond it.
FilterPoints ==
    {[timestamp |-> t, latitude |-> Metres(0),
      horizontal_accuracy |-> q[1], speed |-> q[2]] :
        t \in ListTimes,
        q \in {<< <<>>, <<>> >>,
               << <<MAX_HORIZONTAL_ACCURACY_M>>, <<MAX_SPEED_MS>> >>,
               << <<MAX_HORIZONTAL_ACCURACY_M + 1>>, <<>> >>,
               << <<>>, <<MAX_SPEED_MS + 1>> >>}}

InitFilter ==
    /\ PipelineOff
    /\ arg \in ListsOf(FilterPoints)
    /\ thr \in ThresholdSets
    /\ ret = <<>>
    /\ clusters = <<>>
    /\ called = "none"

ApplyFilter ==
    /\ called = "none"
    /\ ret' = filter_gps_errors(arg, thr)
    /\ called' = "filter_gps_errors"
    /\ UNCHANGED <<arg, thr, clusters, PipelineIdle>>

SpecFilter == InitFilter /\ [][ApplyFilter]_vars

TimeSorted(points) ==
    \A i \in 1..(Len(points) - 1) : points[i].timestamp <= points[i + 1].timestamp

DetectPoints ==
    [timestamp : ListTimes,
     latitude : {Metres(m) : m \in PositionsM},
     horizontal_accuracy : {<<>>},
     speed : {<<>>}]

InitDetect ==
    /\ PipelineOff
    /\ arg \in {points \in ListsOf(DetectPoints) : TimeSorted(points)}
    /\ thr \in ThresholdSets
    /\ ret = <<>>
    /\ clusters = <<>>
    /\ called = "none"

ApplyDetect ==
    /\ called = "none"
    /\ ret' = detect_visits(arg, thr)
    /\ clusters' = DetectRun(arg, thr).closed
    /\ called' = "detect_visits"
    /\ UNCHANGED <<arg, thr, PipelineIdle>>

SpecDetect == InitDetect /\ [][ApplyDetect]_vars

\* Candidate visits as the detector shapes them.
CandidateVisits ==
    {[latitude |-> Metres(m), arrival |-> a, departure |-> d,
      duration_seconds |-> WholeSeconds(d - a)] :
        m \in PositionsM, a \in VisitTimes, d \in VisitTimes} 

Chronological(vs) ==
    /\ \A i \in 1..Len(vs) : vs[i].arrival <= vs[i].departure
    /\ \A i \in 1..(Len(vs) - 1) : vs[i].arrival <= vs[i + 1].arrival

\* The merge thresholds: the defaults, and no gap allowed.
MergeThresholdSets ==
    {MergeDefaults, [MergeDefaults EXCEPT !.visit_merge_gap_s = 0]}

InitMerge ==
    /\ PipelineOff
    /\ arg = <<>>
    /\ thr \in MergeThresholdSets
    /\ ret = <<>>
    /\ clusters = <<>>
    /\ called = "none"

\* The caller puts one more visit on its list, in chronological order.
AppendVisit ==
    /\ called = "none"
    /\ Len(arg) < MaxList
    /\ \E v \in CandidateVisits :
          /\ Chronological(Append(arg, v))
          /\ arg' = Append(arg, v)
    /\ UNCHANGED <<thr, ret, clusters, called, PipelineIdle>>

ApplyMerge ==
    /\ called = "none"
    /\ ret' = merge_nearby_visits(arg, thr)
    /\ called' = "merge_nearby_visits"
    /\ UNCHANGED <<arg, thr, clusters, PipelineIdle>>

NextMerge == AppendVisit \/ ApplyMerge

SpecMerge == InitMerge /\ [][NextMerge]_vars

-----------------------------------------------------------------------------
(* Properties of the GPS filter (SpecFilter) *)

Count(seq, x) == Cardinality({i \in DOMAIN seq : seq[i] = x})

\* A point the accuracy and speed checks let through, from the thresholds.
WithinLimits(pt) ==
    /\ pt.horizontal_accuracy = <<>>
         \/ pt.horizontal_accuracy[1] <= thr.max_horizontal_accuracy_m
    /\ pt.speed = <<>> \/ pt.speed[1] <= thr.max_speed_ms

\* An argument point the result lacks (counted with multiplicity).
Dropped(pt) == Count(ret, pt) < Count(arg, pt)

\* C5: the result of filter_gps_errors holds no point the argument lacks and
\* none more often, is no longer than the argument, and is in ascending
\* timestamp order, whatever the order of the argument; the empty list
\* gives the empty list.
C5_FilterMonotone ==
    called = "filter_gps_errors" =>
        /\ \A i \in DOMAIN ret : Count(ret, ret[i]) <= Count(arg, ret[i])
        /\ Len(ret) <= Len(arg)
        /\ \A i \in 1..(Len(ret) - 1) : ret[i].timestamp <= ret[i + 1].timestamp
        /\ arg = <<>> => ret = <<>>

\* An argument out of order, partly dropped, at least two points kept.
C5_Witness ==
    /\ called = "filter_gps_errors"
    /\ \E i \in 1..(Len(arg) - 1) : arg[i].timestamp > arg[i + 1].timestamp
    /\ 2 <= Len(ret)
    /\ Len(ret) < Len(arg)

\* C6: the result holds no point whose accuracy is present and above
\* max_horizontal_accuracy_m and none whose speed is present and above
\* max_speed_ms; a point with each of the two absent or within its limit is
\* dropped only within min_point_interval_s after a point that was kept.
C6_AccuracySpeedFilters ==
    called = "filter_gps_errors" =>
        /\ \A i \in DOMAIN ret : WithinLimits(ret[i])
        /\ \A i \in DOMAIN arg :
              (WithinLimits(arg[i]) /\ Dropped(arg[i])) =>
                  \E j \in DOMAIN ret :
                      /\ ret[j].timestamp <= arg[i].timestamp
                      /\ arg[i].timestamp - ret[j].timestamp
                            < Seconds(thr.min_point_interval_s)

\* A point at both limits and a point without the columns are kept, a point
\* beyond the accuracy limit and one beyond the speed limit are not.
C6_Witness ==
    /\ called = "filter_gps_errors"
    /\ \E i \in DOMAIN ret : ret[i].horizontal_accuracy = <<MAX_HORIZONTAL_ACCURACY_M>>
    /\ \E i \in DOMAIN ret : ret[i].horizontal_accuracy = <<>> /\ ret[i].speed = <<>>
    /\ \E i \in DOMAIN arg : arg[i].horizontal_accuracy = <<MAX_HORIZONTAL_ACCURACY_M + 1>>
    /\ Len(ret) = Len(arg) - 1

\* The kept point a point of the argument is compared with: the last of the
\* result that is not later than it.
LastKeptBefore(pt) ==
    LET prior == {j \in DOMAIN ret : ret[j].timestamp <= pt.timestamp}
    IN IF prior = {} THEN 0 ELSE CHOOSE j \in prior : \A k \in prior : k <= j

\* The first point, in stable timestamp order, within the limits.
FirstWithinLimits ==
    LET ok == {i \in DOMAIN arg : WithinLimits(arg[i])}
    IN CHOOSE i \in ok :
          \A j \in ok : \/ arg[i].timestamp < arg[j].timestamp
                        \/ arg[i].timestamp = arg[j].timestamp /\ i <= j

\* C7: the first point in time order that passes the accuracy and speed
\* checks is kept; two neighbours of the result are min_point_interval_s or
\* more apart; and a passing point is dropped only if it is less than
\* min_point_interval_s after the kept point before it (a point the other
\* checks rejected is never the reference).
C7_IntervalDedup ==
    called = "filter_gps_errors" =>
        /\ (\E i \in DOMAIN arg : WithinLimits(arg[i])) =>
              ret # <<>> /\ ret[1] = arg[FirstWithinLimits]
        /\ \A i \in 1..(Len(ret) - 1) :
              ret[i + 1].timestamp - ret[i].timestamp
                  >= Seconds(thr.min_point_interval_s)
        /\ \A i \in DOMAIN arg :
              (WithinLimits(arg[i]) /\ Dropped(arg[i])) =>
                  /\ LastKeptBefore(arg[i]) # 0
                  /\ arg[i].timestamp - ret[LastKeptBefore(arg[i])].timestamp
                        < Seconds(thr.min_point_interval_s)

\* A burst: a passing point is dropped for being too close to a kept one,
\* and a point is kept although a rejected point lies less than the interval
\* before it.
C7_Witness ==
    /\ called = "filter_gps_errors"
    /\ \E i \in DOMAIN arg : WithinLimits(arg[i]) /\ Dropped(arg[i])
    /\ \E i \in DOMAIN arg, j \in DOMAIN ret :
          /\ ~WithinLimits(arg[i])
          /\ arg[i].timestamp < ret[j].timestamp
          /\ ret[j].timestamp - arg[i].timestamp < Seconds(thr.min_point_interval_s)

-----------------------------------------------------------------------------
(* Properties of the detector (SpecDetect) *)

RECURSIVE Flatten(_)
Flatten(seqs) == IF seqs = <<>> THEN <<>> ELSE Head(seqs) \o Flatten(Tail(seqs))

Qualifies(cluster) ==
    /\ Len(cluster) >= 2
    /\ cluster[Len(cluster)].timestamp - cluster[1].timestamp
          >= Seconds(thr.min_visit_duration_s)

\* C8: the clusters detect_visits closes make up its argument, and it
\* returns one visit for each closed cluster of two or more members whose
\* last member is min_visit_duration_s or more after its first, in order,
\* with that first timestamp as arrival and that last as departure, and no
\* other visit; fewer than two points give no visit.
C8_VisitQualification ==
    called = "detect_visits" =>
        LET qualified == SelectSeq(clusters, Qualifies)
        IN /\ Len(arg) >= 2 => Flatten(clusters) = arg
           /\ Len(ret) = Len(qualified)
           /\ \A k \in DOMAIN ret :
                 /\ ret[k].arrival = qualified[k][1].timestamp
                 /\ ret[k].departure = qualified[k][Len(qualified[k])].timestamp
           /\ Len(arg) < 2 => ret = <<>>

\* With no minimum stay a visit is returned and a cluster of one point is not.
C8_Witness ==
    /\ called = "detect_visits"
    /\ thr.min_visit_duration_s = 0
    /\ Len(ret) = 1
    /\ \E k \in DOMAIN clusters : Len(clusters[k]) = 1

-----------------------------------------------------------------------------
(* Properties of the merger (SpecMerge) *)

\* The visit that opened the group visit i falls in, by position.
GroupStart(i) ==
    LET start[k \in 1..Len(arg)] ==
            IF k = 1 THEN 1
            ELSE LET g    == start[k - 1]
                     deps == {arg[j].departure : j \in g..(k - 1)}
                     dep  == CHOOSE d \in deps : \A e \in deps : e <= d
                 IN IF /\ Abs(arg[k].latitude - arg[g].latitude)
                             <= thr.visit_radius_m * Scale
                       /\ arg[k].arrival - dep <= thr.visit_merge_gap_s * TicksPerSec
                    THEN g ELSE k
    IN start[i]

GroupStarts == {GroupStart(i) : i \in DOMAIN arg}

\* The k-th group start, in order.
NthStart(k) ==
    CHOOSE g \in GroupStarts : Cardinality({h \in GroupStarts : h <= g}) = k

LatestDeparture(g) ==
    LET deps == {arg[j].departure : j \in {i \in DOMAIN arg : GroupStart(i) = g}}
    IN CHOOSE d \in deps : \A e \in deps : e <= d

\* C9: merge_nearby_visits returns one visit per group, in order, where a
\* visit joins the open group exactly when its centroid is within
\* visit_radius_m of the group's first centroid and it arrives no more than
\* visit_merge_gap_s after the group's latest departure; the visit of a
\* group has the arrival and centroid of its first member, the latest
\* departure of its members and duration_seconds = departure - arrival;
\* an empty or one-element list comes back unchanged.
C9_MergeRule ==
    called = "merge_nearby_visits" =>
        /\ Len(arg) <= 1 => ret = arg
        /\ Len(ret) = Cardinality(GroupStarts)
        /\ \A k \in DOMAIN ret :
              LET g == NthStart(k)
              IN /\ ret[k].latitude = arg[g].latitude
                 /\ ret[k].arrival = arg[g].arrival
                 /\ ret[k].departure = LatestDeparture(g)
                 /\ ret[k].duration_seconds
                       = (LatestDeparture(g) - arg[g].arrival) \div TicksPerSec

\* A chain of three collapses to one visit that ends later than its first
\* member, under a gap threshold that would part the first from the last.
C9_Witness ==
    /\ called = "merge_nearby_visits"
    /\ Len(arg) = 3
    /\ Len(ret) = 1
    /\ arg[3].arrival - arg[1].departure > thr.visit_merge_gap_s * TicksPerSec
    /\ ret[1].departure > arg[2].departure

-----------------------------------------------------------------------------
(* Properties of the pipeline (Spec, SpecFleet) *)

\* The rows of the Visit table the last handler added.
NewVisits == SubSeq(visits, Len(visits) - last.ret + 1, Len(visits))

\* C1: when process_device_locations runs on a device again, with no row
\* added since it last ran on that device, it returns no visit.
C1_Idempotence == last.again => last.ret = 0

VisitsAt(p) == {i \in DOMAIN visits : visits[i].place_id = p.id}

RECURSIVE SumDurations(_)
SumDurations(rows) ==
    IF rows = {} THEN 0
    ELSE LET i == CHOOSE i \in rows : TRUE
         IN visits[i].duration_seconds + SumDurations(rows \ {i})

\* C2: every place's visit_count is the number of visits that reference it
\* and its total_duration_seconds the sum of their duration_seconds.
C2_PlaceAggregates ==
    \A p \in places :
        /\ p.visit_count = Cardinality(VisitsAt(p))
        /\ p.total_duration_seconds = SumDurations(VisitsAt(p))

\* C3: every visit references exactly one place of the Place table, and that
\* place belongs to the owner of the visit's device.
C3_VisitPlaceOwner ==
    \A i \in DOMAIN visits :
        /\ Cardinality({p \in places : p.id = visits[i].place_id}) = 1
        /\ \A p \in places :
              p.id = visits[i].place_id => p.user_id = Owner[visits[i].device_id]

\* A visit within the snap radius of another user's place, nearer than any
\* place of its own user but its own, and not snapped to it.
C3_Witness ==
    \E i \in DOMAIN visits, p \in places :
        /\ p.user_id # Owner[visits[i].device_id]
        /\ haversine_m(visits[i].latitude, p.latitude)
              <= Metres(get_thresholds(config).place_snap_radius_m)
        /\ visits[i].place_id # p.id
        /\ p.id < visits[i].place_id

\* C4: each visit a handler adds lasts min_visit_duration_s or more, by the
\* thresholds that handler read, and every visit's duration_seconds is its
\* departure - arrival in whole seconds.
C4_VisitDurationFloor ==
    /\ \A i \in DOMAIN NewVisits :
          NewVisits[i].departure - NewVisits[i].arrival
              >= Seconds(get_thresholds(config).min_visit_duration_s)
    /\ \A i \in DOMAIN visits :
          /\ visits[i].duration_seconds * TicksPerSec
                <= visits[i].departure - visits[i].arrival
          /\ visits[i].departure - visits[i].arrival
                < (visits[i].duration_seconds + 1) * TicksPerSec

\* The table holds a visit of exactly the minimum, and a handler adds one
\* that lasts a fraction of a second more than its duration_seconds.
C4_Witness ==
    /\ \E i \in DOMAIN visits :
          visits[i].departure - visits[i].arrival
              = Seconds(get_thresholds(config).min_visit_duration_s)
    /\ \E i \in DOMAIN NewVisits :
          NewVisits[i].departure - NewVisits[i].arrival
              > Seconds(NewVisits[i].duration_seconds)

\* C10: among the visits one handler adds for a device, no two neighbours
\* have centroids within visit_radius_m of each other and a gap between
\* them of visit_merge_gap_s or less.
C10_MergedBeforeSnap ==
    \A i \in 1..(Len(NewVisits) - 1) :
        LET earlier == NewVisits[i]
            later   == NewVisits[i + 1]
        IN ~ /\ earlier.device_id = later.device_id
             /\ haversine_m(earlier.latitude, later.latitude)
                   <= Metres(get_thresholds(config).visit_radius_m)
             /\ later.arrival - earlier.departure
                   <= Seconds(config.visit_merge_gap_s)

-----------------------------------------------------------------------------
(* Further properties of the merger (SpecMerge) *)

\* C11: merging the list merge_nearby_visits returned, under the same
\* thresholds, gives that list again.
C11_MergeIdempotent ==
    called = "merge_nearby_visits" => merge_nearby_visits(ret, thr) = ret

\* Some visits were merged and more than one visit is left, two of them at
\* centroids within visit_radius_m of each other.
C11_Witness ==
    /\ called = "merge_nearby_visits"
    /\ Len(ret) < Len(arg)
    /\ \E i \in 1..(Len(ret) - 1) :
          haversine_m(ret[i].latitude, ret[i + 1].latitude)
              <= Metres(thr.visit_radius_m)

-----------------------------------------------------------------------------
(* snap_to_place, applied once to a Place table drawn by Init (SpecSnap) *)

\* Where the places of the table lie, and where a visit is snapped from:
\* on a place, at the snap radius from both, just beyond it from one.
PlacePositionsM == {0, 2 * PLACE_SNAP_RADIUS_M}
SnapPositionsM ==
    {0, PLACE_SNAP_RADIUS_M, PLACE_SNAP_RADIUS_M + 1, 3 * PLACE_SNAP_RADIUS_M + 1}

\* What a Place row holds besides its id: fresh, or visited once and
\* geocoded.
PlaceContents ==
    [user_id : Users,
     latitude : {Metres(m) : m \in PlacePositionsM},
     state : {<< <<>>, 0 >>, << <<"address">>, 1 >>}]

PlaceRow(id, c) ==
    [id |-> id, user_id |-> c.user_id, latitude |-> c.latitude,
     address |-> c.state[1], visit_count |-> c.state[2],
     total_duration_seconds |-> c.state[2]]

\* The Place tables: for each id, no row or one.
PlaceTables ==
    {{PlaceRow(id, f[id][1]) : id \in {i \in 1..MaxPlaceId : f[i] # <<>>}} :
        f \in [1..MaxPlaceId -> {<<>>} \cup {<<c>> : c \in PlaceContents}]}

InitSnap ==
    /\ locations = [d \in Devices |-> <<>>]
    /\ visits = <<>>
    /\ places \in PlaceTables
    /\ config = SeededConfig
    /\ last = [dev |-> "none", ret |-> 0, again |-> FALSE]
    /\ GeocoderOff
    /\ arg \in [user_id : Users, latitude : {Metres(m) : m \in SnapPositionsM}]
    /\ thr = ModuleDefaults
    /\ ret = <<>>
    /\ clusters = <<>>
    /\ called = "none"

\* ret holds the returned place and the table after the call.
ApplySnap ==
    /\ called = "none"
    /\ ret' = snap_to_place(places, arg.user_id, arg.latitude, thr)
    /\ called' = "snap_to_place"
    /\ UNCHANGED <<arg, thr, clusters, PipelineIdle>>

SpecSnap == InitSnap /\ [][ApplySnap]_vars

\* The caller's places and whether one is within the snap radius.
OwnPlaces == {p \in places : p.user_id = arg.user_id}

OwnPlaceInReach ==
    \E p \in OwnPlaces :
        Abs(p.latitude - arg.latitude) <= PLACE_SNAP_RADIUS_M * Scale

\* C12: if one of the user's places is within place_snap_radius_m,
\* snap_to_place returns one of the user's places at the least distance and
\* leaves the Place table as it was; otherwise it adds one row to the table
\* and returns it: the user's, at the given latitude, with visit_count 0,
\* total_duration_seconds 0, no address and an id no other row has.
C12_SnapOrCreate ==
    called = "snap_to_place" =>
        IF OwnPlaceInReach
        THEN /\ ret.place \in OwnPlaces
             /\ \A q \in OwnPlaces :
                   Abs(ret.place.latitude - arg.latitude)
                       <= Abs(q.latitude - arg.latitude)
             /\ ret.places = places
        ELSE /\ ret.place \notin places
             /\ ret.places = places \cup {ret.place}
             /\ \A p \in places : p.id # ret.place.id
             /\ ret.place.user_id = arg.user_id
             /\ ret.place.latitude = arg.latitude
             /\ ret.place.visit_count = 0
             /\ ret.place.total_duration_seconds = 0
             /\ ret.place.address = <<>>

\* The visit is exactly the snap radius from two places of the user and is
\* snapped to one of them, though another user's place is nearer.
C12_Witness ==
    /\ called = "snap_to_place"
    /\ ret.place \in places
    /\ Abs(ret.place.latitude - arg.latitude) = PLACE_SNAP_RADIUS_M * Scale
    /\ Cardinality(OwnPlaces) >= 2
    /\ \E p \in places : p.user_id # arg.user_id

-----------------------------------------------------------------------------
(* Further properties of the pipeline (Spec, SpecFleet) *)

\* No row of the device is later than the departure of each of its visits.
NoNewRows(d) ==
    \A i \in 1..Len(locations[d]) :
        \E j \in 1..Len(visits) :
            /\ visits[j].device_id = d
            /\ locations[d][i].timestamp <= visits[j].departure

\* An invocation that returned run left the tables as they are.
Untouched(run) ==
    /\ run.new_visits = <<>>
    /\ run.visits = visits
    /\ run.places = places

VisitsLessAddress(vs) == [i \in 1..Len(vs) |-> [vs[i] EXCEPT !.address = <<>>]]

PlacesLessAddress(ps) == {[p EXCEPT !.address = <<>>] : p \in ps}

\* Where the two tables differ in an address, the first has none.
NullWhereDifferent(vs, ws, ps, qs) ==
    /\ \A i \in 1..Len(vs) : vs[i].address \in {ws[i].address, <<>>}
    /\ \A p \in ps : \E q \in qs : q.id = p.id /\ p.address \in {q.address, <<>>}

\* The invocation whose lookups partly failed against the one whose lookups
\* all succeeded.
SameButAddresses(failed, answered) ==
    /\ VisitsLessAddress(failed.visits) = VisitsLessAddress(answered.visits)
    /\ VisitsLessAddress(failed.new_visits) = VisitsLessAddress(answered.new_visits)
    /\ PlacesLessAddress(failed.places) = PlacesLessAddress(answered.places)
    /\ NullWhereDifferent(failed.visits, answered.visits,
                          failed.places, answered.places)

\* C14: in every reachable state, for every device and whichever of the
\* invocation's lookups fail, process_device_locations commits the visits,
\* places and counters it commits when every lookup succeeds, and differs
\* from that only in addresses that stay null.
C14_GeocodeFailureHarmless ==
    \A d \in Devices :
        \A geo \in GeoRuns(Len(PendingCandidates(locations[d], visits, d))) :
            SameButAddresses(
                process_device_locations(locations[d], visits, places, config,
                                         d, Owner[d], geo),
                process_device_locations(locations[d], visits, places, config,
                                         d, Owner[d], AllAnswers(Len(geo))))

\* The handler that just ran persisted a visit, with its counters, at a
\* place whose lookup failed.
C14_Witness ==
    /\ last.dev = "d1"
    /\ last.ret > 0
    /\ visits[Len(visits)].address = <<>>
    /\ \E p \in places : /\ p.id = visits[Len(visits)].place_id
                         /\ p.address = <<>>
                         /\ p.visit_count > 0
                         /\ p.total_duration_seconds
                                >= visits[Len(visits)].duration_seconds

-----------------------------------------------------------------------------
(* reverse_geocode and its gate (SpecGeocode).  nominatim.now is            *)
(* time.time() in tenths of a second; pc is where each caller stands in     *)
(* reverse_geocode; wake is when its time.sleep ends; sent holds the times  *)
(* of the last two requests handed to requests.get.                         *)

GateIdle == <<locations, visits, places, config, last, arg, thr, ret, clusters, called>>

\* Time passes.
Tick ==
    /\ nominatim.now < MaxClock
    /\ nominatim' = [nominatim EXCEPT !.now = @ + 1]
    /\ UNCHANGED GateIdle

\* elapsed = time.time() - _last_nominatim_call, and the decision to sleep.
Enter(c) ==
    /\ nominatim.pc[c] = "idle"
    /\ nominatim' =
          IF nominatim.now - nominatim.last_call < NOMINATIM_INTERVAL
          THEN [nominatim EXCEPT
                  !.pc[c] = "sleep",
                  !.wake[c] = nominatim.now
                                + (NOMINATIM_INTERVAL - (nominatim.now - nominatim.last_call))]
          ELSE [nominatim EXCEPT !.pc[c] = "send"]
    /\ UNCHANGED GateIdle

\* time.sleep returns, no earlier than asked.
Wake(c) ==
    /\ nominatim.pc[c] = "sleep"
    /\ nominatim.now >= nominatim.wake[c]
    /\ nominatim' = [nominatim EXCEPT !.pc[c] = "send"]
    /\ UNCHANGED GateIdle

\* requests.get sends the request.
Send(c) ==
    /\ nominatim.pc[c] = "send"
    /\ nominatim' = [nominatim EXCEPT
                       !.pc[c] = "wait",
                       !.sent = IF Len(@) = 2 THEN <<@[2], nominatim.now>>
                                ELSE Append(@, nominatim.now)]
    /\ UNCHANGED GateIdle

\* requests.get returns a response: _last_nominatim_call = time.time().
Respond(c) ==
    /\ nominatim.pc[c] = "wait"
    /\ nominatim' = [nominatim EXCEPT !.pc[c] = "idle", !.last_call = nominatim.now]
    /\ UNCHANGED GateIdle

\* requests.get raises (connection error, timeout): the except branch.
Fail(c) ==
    /\ nominatim.pc[c] = "wait"
    /\ nominatim' = [nominatim EXCEPT !.pc[c] = "idle"]
    /\ UNCHANGED GateIdle

NextGeocode ==
    \/ Tick
    \/ \E c \in Callers : Enter(c)
    \/ \E c \in Callers : Wake(c)
    \/ \E c \in Callers : Send(c)
    \/ \E c \in Callers : Respond(c)
    \/ \E c \in Callers : Fail(c)

SpecGeocode == Init /\ [][NextGeocode]_vars

\* C15: any two consecutive requests sent to the geocoding service are at
\* least 1.1 seconds apart.
C15_RateLimit ==
    Len(nominatim.sent) = 2 =>
        nominatim.sent[2] - nominatim.sent[1] >= NOMINATIM_INTERVAL

-----------------------------------------------------------------------------
(* Properties of reprocess_all (SpecFleet) *)

\* What detection fixes of a visit, of a Visit row or of a candidate.
Detected(v) ==
    [latitude |-> v.latitude, arrival |-> v.arrival, departure |-> v.departure,
     duration_seconds |-> v.duration_seconds]

DetectedOf(vs) == [i \in 1..Len(vs) |-> Detected(vs[i])]

\* The rows of vs at place p, and the sum of their durations.
RowsAt(vs, p) == {i \in 1..Len(vs) : vs[i].place_id = p.id}

RECURSIVE SumOver(_, _)
SumOver(vs, rows) ==
    IF rows = {} THEN 0
    ELSE LET i == CHOOSE i \in rows : TRUE
         IN vs[i].duration_seconds + SumOver(vs, rows \ {i})

OwnVisits(vs, u) == SelectSeq(vs, LAMBDA v : Owner[v.device_id] = u)

\* The geocoder's answers to a reprocess_all: all failures, or all answers.
FleetAnswers ==
    {[d \in Devices |-> NoAnswers(Len(locations[d]))],
     [d \in Devices |-> AllAnswers(Len(locations[d]))]}

\* What reprocess_all(u) left, run, is u's history processed afresh.
Rebuilt(u, run) ==
    /\ \A d \in Devices :
          Owner[d] = u =>
              DetectedOf(VisitsOf(run.visits, d)) = DetectedOf(FreshCandidates(d))
    /\ \A p \in PlacesOf(run.places, u) :
          /\ RowsAt(run.visits, p) # {}
          /\ \A i \in RowsAt(run.visits, p) : Owner[run.visits[i].device_id] = u
          /\ p.visit_count = Cardinality(RowsAt(run.visits, p))
          /\ p.total_duration_seconds = SumOver(run.visits, RowsAt(run.visits, p))
    /\ \A i \in 1..Len(run.visits) :
          Owner[run.visits[i].device_id] = u =>
              \E p \in PlacesOf(run.places, u) : p.id = run.visits[i].place_id
    /\ run.visits_created = Len(OwnVisits(run.visits, u))
    /\ run.places_created = Cardinality(PlacesOf(run.places, u))

\* C16: in every reachable state and for every user, reprocess_all leaves as
\* the user's visits exactly the candidates of each device's whole history
\* under the thresholds configured at the call, whatever visits the device
\* had; leaves as the user's places exactly the places those visits are at,
\* each counting those visits and their durations and nothing from before;
\* and returns the number of the user's visits as visits_created and the
\* number of the user's places as places_created.
C16_FullReprocess ==
    \A u \in Users :
        \A geoOf \in FleetAnswers :
            Rebuilt(u, reprocess_all(locations, visits, places, config, u, geoOf))

\* A regeneration has just run for u1 and returned a visit, while a place of
\* u2 carries a count that its visits do not account for.
C16_Witness ==
    /\ last.dev = "none"
    /\ last.ret >= 1
    /\ \E d \in Devices : Len(VisitsOf(visits, d)) > 0 /\ Owner[d] = "u1"
    /\ \E p \in places : /\ p.user_id = "u2"
                         /\ p.visit_count # Cardinality(RowsAt(visits, p))

\* The rows of the users other than u.
OthersVisits(vs, u) == SelectSeq(vs, LAMBDA v : Owner[v.device_id] # u)

OthersPlaces(ps, u) == {p \in ps : p.user_id # u}

\* What reprocess_all(u) left, run, holds the other users' rows as they were.
OthersKept(u, run) ==
    /\ OthersVisits(run.visits, u) = OthersVisits(visits, u)
    /\ OthersPlaces(run.places, u) = OthersPlaces(places, u)

\* A step changes the rows of a device only by storing an uploaded batch.
RawPointsKept ==
    \A d \in Devices :
        \/ locations'[d] = locations[d]
        \/ /\ last'.dev = d
           /\ \E batch \in FleetBatches : locations'[d] = InsertRows(locations[d], batch)

\* C17: no step of the handlers changes a Location row other than by storing
\* the uploaded batch before processing starts, so neither
\* process_device_locations nor reprocess_all adds, deletes or modifies a raw
\* point; and in every reachable state, for every user, reprocess_all leaves
\* the visits and the places of the other users as they are.
C17_ProcessingFrame ==
    /\ [][RawPointsKept]_vars
    /\ [](\A u \in Users :
             \A geoOf \in FleetAnswers :
                 OthersKept(u, reprocess_all(locations, visits, places, config,
                                             u, geoOf)))

\* A regeneration has just run for u1 and returned a visit while u2 has raw
\* points, a visit and a place counted more than once.
C17_Witness ==
    /\ last.dev = "none"
    /\ last.ret >= 1
    /\ Len(locations["d3"]) >= 2
    /\ Len(OthersVisits(visits, "u1")) >= 1
    /\ \E p \in places : p.user_id = "u2" /\ p.visit_count >= 2
    /\ \E p \in places : p.user_id = "u1"

-----------------------------------------------------------------------------
(* Threshold sourcing (Spec) *)

\* C18: the thresholds an invocation reads hold, for each of the seven keys,
\* the configured value when the Config table has the key and the documented
\* default when it does not.
C18_ThresholdSourcing ==
    \A k \in DOMAIN SeededConfig :
        /\ k \in DOMAIN get_thresholds(config)
        /\ get_thresholds(config)[k]
              = IF k \in DOMAIN config THEN config[k] ELSE SeededConfig[k]

-----------------------------------------------------------------------------
(* The commute scenario of tests/gps_test_fixtures.py (SpecTrace): a trace   *)
(* of five segments, stationary (1, 3, 5) and moving (2, 4), is built point  *)
(* by point and then processed once for a device with no prior state.        *)
(* arg.trace holds the points, arg.segment the segment of each.              *)

Stationary == {1, 3, 5}
Moving == {2, 4}

\* How far north of the point before it a point lies, in metres, and how
\* long after it it is taken, in seconds.
TraceHopsM == {0, VISIT_RADIUS_M, 3 * VISIT_RADIUS_M}
WalkStepS == 60
TraceStepsS == {WalkStepS, MIN_VISIT_DURATION_S}

\* A device on the move reports at the short step.
StepsAfter(k) == IF k \in Moving THEN {WalkStepS} ELSE TraceStepsS

SegmentOf(a, k) == {i \in 1..Len(a.trace) : a.segment[i] = k}

Least(S) == CHOOSE i \in S : \A j \in S : i <= j
Greatest(S) == CHOOSE i \in S : \A j \in S : i >= j

\* The time from the first of the points S of the trace to the last.
SpanOf(a, S) == a.trace[Greatest(S)].timestamp - a.trace[Least(S)].timestamp

AllWithin(a, S, d) ==
    \A i, j \in S : haversine_m(a.trace[i].latitude, a.trace[j].latitude) <= d

RECURSIVE SumLatitudes(_, _)
SumLatitudes(a, S) ==
    IF S = {} THEN 0
    ELSE a.trace[Least(S)].latitude + SumLatitudes(a, S \ {Least(S)})

\* The centres (mean latitudes) of segments k and l are more than d apart.
CentresApart(a, k, l, d) ==
    Abs(SumLatitudes(a, SegmentOf(a, k)) * Cardinality(SegmentOf(a, l))
          - SumLatitudes(a, SegmentOf(a, l)) * Cardinality(SegmentOf(a, k)))
        > d * Cardinality(SegmentOf(a, k)) * Cardinality(SegmentOf(a, l))

\* A stationary segment: its points within the visit radius of one another,
\* from first to last at least the minimum duration.
Stays(a, k, th) ==
    /\ SegmentOf(a, k) # {}
    /\ AllWithin(a, SegmentOf(a, k), Metres(th.visit_radius_m))
    /\ SpanOf(a, SegmentOf(a, k)) >= Seconds(th.min_visit_duration_s)

\* A moving segment: no run of its points stays within the visit radius for
\* the minimum duration.
KeepsMoving(a, k, th) ==
    \A i, j \in SegmentOf(a, k) :
        i < j => ~ /\ AllWithin(a, i..j, Metres(th.visit_radius_m))
                   /\ SpanOf(a, i..j) >= Seconds(th.min_visit_duration_s)

\* What can still become a scenario: a segment is left only once it is one.
ScenarioPrefix(a, th) ==
    /\ \A k \in Stationary :
          /\ AllWithin(a, SegmentOf(a, k), Metres(th.visit_radius_m))
          /\ (\E i \in 1..Len(a.trace) : a.segment[i] > k) => Stays(a, k, th)
    /\ \A k \in Moving : KeepsMoving(a, k, th)

Scenario(a, th) ==
    /\ \A k \in Stationary : Stays(a, k, th)
    /\ \A k \in Moving : SegmentOf(a, k) # {} /\ KeepsMoving(a, k, th)
    /\ \A k, l \in Stationary :
          k < l => CentresApart(a, k, l, Metres(th.place_snap_radius_m))

InitTrace ==
    /\ PipelineOff
    /\ arg = [trace   |-> <<[timestamp |-> 0, latitude |-> 0,
                             horizontal_accuracy |-> <<>>, speed |-> <<>>]>>,
              segment |-> <<1>>]
    /\ thr = ModuleDefaults
    /\ ret = <<>>
    /\ clusters = <<>>
    /\ called = "none"

\* The trace with one more point, in segment k.
Extended(a, hop, step, k) ==
    [trace   |-> Append(a.trace,
                        [timestamp |-> a.trace[Len(a.trace)].timestamp + Seconds(step),
                         latitude |-> a.trace[Len(a.trace)].latitude + Metres(hop),
                         horizontal_accuracy |-> <<>>,
                         speed |-> <<>>]),
     segment |-> Append(a.segment, k)]

AppendPoint ==
    /\ called = "none"
    /\ Len(arg.trace) < MaxTrace
    /\ \E hop \in TraceHopsM, step \in StepsAfter(arg.segment[Len(arg.segment)]) :
          \E k \in {arg.segment[Len(arg.segment)], arg.segment[Len(arg.segment)] + 1}
                    \cap (1..5) :
              /\ ScenarioPrefix(Extended(arg, hop, step, k), thr)
              /\ arg' = Extended(arg, hop, step, k)
    /\ UNCHANGED <<thr, ret, clusters, called, PipelineIdle>>

\* What the upload of the whole trace leaves once process_device_locations
\* returned run.
TraceProcessed(run) ==
    /\ visits' = run.visits
    /\ places' = run.places
    /\ last' = [dev |-> "d1", ret |-> Len(run.new_visits), again |-> FALSE]

ProcessTrace ==
    /\ called = "none"
    /\ Scenario(arg, thr)
    /\ locations' = [locations EXCEPT !["d1"] = arg.trace]
    /\ \E geo \in {NoAnswers(Len(arg.trace)), AllAnswers(Len(arg.trace))} :
          TraceProcessed(process_device_locations(arg.trace, visits, places,
                                                  config, "d1", Owner["d1"], geo))
    /\ called' = "process_device_locations"
    /\ UNCHANGED <<config, nominatim, arg, thr, ret, clusters>>

NextTrace == AppendPoint \/ ProcessTrace

SpecTrace == InitTrace /\ [][NextTrace]_vars


\* The place is within d of the centre of segment k.
NearCentre(a, p, k, d) ==
    Abs(p.latitude * Cardinality(SegmentOf(a, k)) - SumLatitudes(a, SegmentOf(a, k)))
        <= d * Cardinality(SegmentOf(a, k))

RECURSIVE SumCounts(_)
SumCounts(ps) ==
    IF ps = {} THEN 0
    ELSE LET p == CHOOSE p \in ps : TRUE
         IN p.visit_count + SumCounts(ps \ {p})

\* Three visits in chronological order, none shorter than the minimum, at
\* three places, the n-th within the snap radius of the n-th stationary
\* segment's centre, whose visit_counts add up to three.
ThreeVisitsThreePlaces ==
    /\ Len(visits) = 3
    /\ \A i \in 1..(Len(visits) - 1) : visits[i].departure < visits[i + 1].arrival
    /\ \A i \in 1..Len(visits) : visits[i].duration_seconds >= MIN_VISIT_DURATION_S
    /\ Cardinality(places) = 3
    /\ \A n \in 1..3 :
          \E p \in places :
              /\ n <= Len(visits) => visits[n].place_id = p.id
              /\ NearCentre(arg, p, 2 * n - 1, Metres(thr.place_snap_radius_m))
    /\ SumCounts(places) = 3

WellSeparated(a, th) ==
    \A i, j \in 1..Len(a.trace) :
        (a.segment[j] \in Stationary /\ a.segment[i] # a.segment[j]) =>
            haversine_m(a.trace[i].latitude, a.trace[j].latitude)
                > 2 * Metres(th.visit_radius_m)

\* From its first point to its last, a moving segment takes less than the
\* minimum duration.
BriefMoves(a, th) ==
    \A k \in Moving :
        SegmentOf(a, k) # {} =>
            SpanOf(a, SegmentOf(a, k)) < Seconds(th.min_visit_duration_s)

-----------------------------------------------------------------------------
(* The incremental watermark (Spec) *)

\* The row is no later than the departure of one of the device's visits.
Watermarked(d, row) ==
    \E j \in 1..Len(visits) :
        visits[j].device_id = d /\ row.timestamp <= visits[j].departure

\* The visits an invocation for d returns when the device's rows are rows.
NewFrom(d, rows) ==
    process_device_locations(rows, visits, places, config, d, Owner[d],
                             NoAnswers(Len(rows))).new_visits

\* Every visit of found arrives after each of the device's visits departed.
ArriveAfter(d, found) ==
    \A i \in 1..Len(found) :
        \A j \in 1..Len(visits) :
            visits[j].device_id = d => found[i].arrival > visits[j].departure

\* found is also what the invocation returns without the device's
\* watermarked rows, and with one more watermarked row, wherever it lies.
OldRowsIdle(d, found) ==
    /\ found = NewFrom(d, SelectSeq(locations[d], LAMBDA row : ~Watermarked(d, row)))
    /\ \A pt \in UploadPoints :
          Watermarked(d, pt) => found = NewFrom(d, InsertByTimestamp(locations[d], pt))

\* C20: in every reachable state and for every device, the visits a process
\* invocation creates all arrive after the latest departure among the
\* device's persisted visits, and they are the same visits without the rows
\* at or before that departure and with one more such row uploaded late.
C20_Watermark ==
    \A d \in Devices :
        /\ ArriveAfter(d, NewFrom(d, locations[d]))
        /\ OldRowsIdle(d, NewFrom(d, locations[d]))

\* The handler that just ran created a visit for a device that had one,
\* from rows later than that visit's departure.
C20_Witness ==
    /\ last.dev = "d1"
    /\ last.ret = 1
    /\ Len(visits) >= 2
    /\ visits[Len(visits) - 1].device_id = "d1"
    /\ visits[Len(visits)].arrival > visits[Len(visits) - 1].departure
    /\ \E i \in 1..Len(locations["d1"]) :
          locations["d1"][i].timestamp <= visits[Len(visits) - 1].departure

-----------------------------------------------------------------------------
(* Further properties of the detector (SpecDetect) *)

\* The sum of the latitudes of the first n members of a cluster.
RECURSIVE SumFirst(_, _)
SumFirst(cluster, n) ==
    IF n = 0 THEN 0 ELSE cluster[n].latitude + SumFirst(cluster, n - 1)

\* The point is within d of the mean of the first n members of the cluster.
NearMean(cluster, n, pt, d) ==
    Abs(pt.latitude * n - SumFirst(cluster, n)) <= d * n

\* The visits of ret, cluster by cluster: the qualifying clusters in order.
QualifiedClusters == SelectSeq(clusters, Qualifies)

\* C21: the clusters detect_visits closes are consecutive runs that make up
\* its argument; each member after the first of a cluster is within
\* visit_radius_m of the mean of the members before it; the first member of
\* each later cluster is farther than visit_radius_m from the mean of the
\* whole cluster before it; and a returned visit lies at the mean of its
\* cluster.
C21_RunningCentroid ==
    (called = "detect_visits" /\ Len(arg) >= 2) =>
        /\ Flatten(clusters) = arg
        /\ \A k \in 1..Len(clusters) :
              /\ Len(clusters[k]) >= 1
              /\ \A n \in 1..(Len(clusters[k]) - 1) :
                    NearMean(clusters[k], n, clusters[k][n + 1],
                             Metres(thr.visit_radius_m))
              /\ k > 1 => ~NearMean(clusters[k - 1], Len(clusters[k - 1]),
                                    clusters[k][1], Metres(thr.visit_radius_m))
        /\ \A k \in 1..Len(ret) :
              ret[k].latitude * Len(QualifiedClusters[k])
                  = SumFirst(QualifiedClusters[k], Len(QualifiedClusters[k]))

\* A point within visit_radius_m of the point before it, and beyond it from
\* the centroid of the two points before, has opened a new cluster.
C21_Witness ==
    /\ called = "detect_visits"
    /\ Len(clusters) = 2
    /\ Len(clusters[1]) = 2
    /\ clusters[1][1].latitude # clusters[1][2].latitude
    /\ haversine_m(clusters[1][2].latitude, clusters[2][1].latitude)
           <= Metres(thr.visit_radius_m)
    /\ Len(ret) = 1

-----------------------------------------------------------------------------
(* The detector on the traces of SpecTrace, whose timestamps are distinct *)

DistinctTimes(points) ==
    \A i \in 1..(Len(points) - 1) : points[i].timestamp < points[i + 1].timestamp

\* Each visit ends no earlier than it starts and before the next one starts.
Consecutive(vs) ==
    /\ \A i \in 1..Len(vs) : vs[i].arrival <= vs[i].departure
    /\ \A i \in 1..(Len(vs) - 1) : vs[i].departure < vs[i + 1].arrival

\* C22: for every trace built, time-sorted with distinct timestamps, the
\* visits detect_visits returns are in strictly increasing arrival order and
\* do not overlap: each departs no earlier than it arrives and before the
\* next arrives.
C22_DetectorOrdering ==
    DistinctTimes(arg.trace) =>
        /\ Consecutive(detect_visits(arg.trace, thr))
        /\ \A i \in 1..(Len(detect_visits(arg.trace, thr)) - 1) :
              detect_visits(arg.trace, thr)[i].arrival
                  < detect_visits(arg.trace, thr)[i + 1].arrival

\* A processed trace of which the detector made three visits, the ones
\* persisted.
C22_Witness ==
    /\ called = "process_device_locations"
    /\ Len(detect_visits(arg.trace, thr)) = 3
    /\ Len(visits) = 3
    /\ \A i \in 1..3 : visits[i].arrival = detect_visits(arg.trace, thr)[i].arrival
    /\ visits[1].departure > visits[1].arrival

-----------------------------------------------------------------------------
(* One invocation of _process_locations_since step by step (SpecCommit):     *)
(* visits and places are what is committed, ret is the open session (its     *)
(* places and new_visits), arg the candidates still to handle, clusters all  *)
(* the candidates of the invocation.                                         *)

\* The n-th candidate of an invocation stays one second, at latitude lat.
StayAt(n, lat) ==
    [latitude |-> lat, arrival |-> Seconds(2 * n), departure |-> Seconds(2 * n + 1),
     duration_seconds |-> 1]

\* The candidate lists: one to MaxList stays, each at any position.
CandidateRuns ==
    UNION {{[n \in 1..len |-> StayAt(n, f[n])] :
               f \in [1..len -> {Metres(m) : m \in PositionsM}]} : len \in 1..MaxList}

\* The tables an invocation finds: empty, or one visit of the device at one
\* place of its user.
FoundTables ==
    {[visits |-> <<>>, places |-> {}],
     [visits |-> <<[device_id |-> "d1", place_id |-> 1, latitude |-> 0,
                    arrival |-> 0, departure |-> Seconds(1),
                    duration_seconds |-> 1, address |-> <<>>]>>,
      places |-> {[id |-> 1, user_id |-> "u1", latitude |-> 0, address |-> <<>>,
                   visit_count |-> 1, total_duration_seconds |-> 1]}]}

\* Durable for a session in which every flush commits.
DurableAutocommit(vs, ps, done) ==
    [visits |-> vs \o done.new_visits, places |-> done.places]

\* What is persistent while the session holds done: add and flush write
\* inside the transaction only.
Durable(vs, ps, done) == [visits |-> vs, places |-> ps]

InitCommit ==
    /\ locations = [d \in Devices |-> <<>>]
    /\ \E found \in FoundTables : visits = found.visits /\ places = found.places
    /\ config = SeededConfig
    /\ last = [dev |-> "none", ret |-> 0, again |-> FALSE]
    /\ GeocoderOff
    /\ arg \in CandidateRuns
    /\ clusters = arg
    /\ thr = ModuleDefaults
    /\ ret = [places |-> places, new_visits |-> <<>>]
    /\ called = "loop"

\* One turn of the loop: snap, geocode, count, add the visit.
HandleCandidate ==
    /\ called = "loop"
    /\ arg # <<>>
    /\ \E geo \in GeoAnswers :
          /\ ret' = PersistOne(ret, Head(arg), "d1", "u1", thr, geo)
          /\ visits' = Durable(visits, places,
                               PersistOne(ret, Head(arg), "d1", "u1", thr, geo)).visits
          /\ places' = Durable(visits, places,
                               PersistOne(ret, Head(arg), "d1", "u1", thr, geo)).places
    /\ arg' = Tail(arg)
    /\ UNCHANGED <<locations, config, last, nominatim, thr, clusters, called>>

\* db.commit() and the return of new_visits.
CommitSession ==
    /\ called = "loop"
    /\ arg = <<>>
    /\ visits' = Committed(visits, ret).visits
    /\ places' = Committed(visits, ret).places
    /\ last' = [dev |-> "d1", ret |-> Len(Committed(visits, ret).new_visits),
                again |-> FALSE]
    /\ called' = "committed"
    /\ UNCHANGED <<locations, config, nominatim, arg, thr, ret, clusters>>

\* An exception leaves the function before db.commit(); the caller's session
\* is closed without a commit.
FailSession ==
    /\ called = "loop"
    /\ called' = "failed"
    /\ UNCHANGED <<locations, visits, places, config, last, nominatim, arg, thr,
                   ret, clusters>>

NextCommit == HandleCandidate \/ CommitSession \/ FailSession

SpecCommit == InitCommit /\ [][NextCommit]_vars

\* A step that is not the commit persists nothing.
NothingBeforeCommit ==
    called' # "committed" => (visits' = visits /\ places' = places)

\* The commit comes after every candidate was handled and persists, at once,
\* the session's places and one visit for each candidate, in the candidates'
\* order, which are the visits returned.
AllAtCommit ==
    (called = "loop" /\ called' = "committed") =>
        /\ arg = <<>>
        /\ places' = ret.places
        /\ Len(visits') = Len(visits) + Len(clusters)
        /\ SubSeq(visits', 1, Len(visits)) = visits
        /\ DetectedOf(SubSeq(visits', Len(visits) + 1, Len(visits'))) = clusters
        /\ SubSeq(visits', Len(visits) + 1, Len(visits')) = ret.new_visits
        /\ last'.ret = Len(clusters)
        /\ Chronological(ret.new_visits)

\* C23: the visits and places of one invocation and its counter and address
\* updates are persisted by one step, the commit that follows the last
\* candidate; no step before it, and no failure, persists any of them; and
\* the list returned is the visits that commit persisted, in chronological
\* order.
C23_AtomicCommit == [][NothingBeforeCommit /\ AllAtCommit]_vars

\* An invocation failed after it had a visit and a changed place in its
\* session, and the tables are the ones it found.
C23_Witness ==
    /\ called = "failed"
    /\ Len(ret.new_visits) >= 1
    /\ ret.places # places
    /\ arg # <<>>

-----------------------------------------------------------------------------
(* Places and visits across the handlers' steps (Spec) *)

\* The rows a handler's step added to the Visit table, by position.
Added == (Len(visits') - last'.ret + 1)..Len(visits')

AddedAt(p) == {i \in Added : visits'[i].place_id = p.id}

\* Place p as the step leaves it, q: where it was, counting the added
\* visits and their durations, with the address it had if it had one; the
\* added visits at it carry that address, or the one q has, or none.
Grown(p, q) ==
    /\ q.latitude = p.latitude
    /\ q.user_id = p.user_id
    /\ q.visit_count = p.visit_count + Cardinality(AddedAt(p))
    /\ q.total_duration_seconds
          = p.total_duration_seconds + SumOver(visits', AddedAt(p))
    /\ p.address # <<>> => q.address = p.address
    /\ \A i \in AddedAt(p) :
          visits'[i].address \in (IF p.address # <<>> THEN {p.address}
                                  ELSE {<<>>, q.address})

\* A step of upload_locations or reprocess_visits.
PlacesGrow ==
    last'.dev # "none" =>
        /\ \A p \in places : \E q \in places' : q.id = p.id /\ Grown(p, q)
        /\ \A i \in Added :
              \E q \in places' : /\ q.id = visits'[i].place_id
                                 /\ visits'[i].address \in {<<>>, q.address}

\* C24: a step of upload_locations or reprocess_visits leaves every place
\* where it was and whose it was, adds to its visit_count the number of
\* visits the step created at it and to its total_duration_seconds their
\* durations, keeps an address the place had, and gives each created visit
\* the address its place had, or none or the address looked up since when
\* the place had none.
C24_PlacesStay == [][PlacesGrow]_vars

\* A place was visited twice: the first lookup failed, the second gave the
\* address the place and the second visit now carry.
C24_Witness ==
    /\ last.dev = "d1"
    /\ \E p \in places :
          /\ p.address # <<>>
          /\ p.visit_count >= 2
          /\ \E i, j \in 1..Len(visits) :
                /\ i < j
                /\ visits[i].place_id = p.id
                /\ visits[j].place_id = p.id
                /\ visits[i].address = <<>>
                /\ visits[j].address = p.address


\* The Visit table before the step is the beginning of the table after it.
VisitsRemain ==
    /\ Len(visits') >= Len(visits)
    /\ SubSeq(visits', 1, Len(visits)) = visits

\* A step keeps every persisted visit as it is, unless it is a reprocess_all,
\* which keeps the visits of the other users.
VisitsKept ==
    IF last'.dev = "none"
    THEN \E u \in Users : OthersVisits(visits', u) = OthersVisits(visits, u)
    ELSE VisitsRemain

\* C25: no step changes a field of a persisted visit or deletes one, other
\* than a reprocess_all, which removes the visits of its user only.
C25_VisitsImmutable == [][VisitsKept]_vars

-----------------------------------------------------------------------------
(* Two invocations at once, for the two devices of one user, each with one   *)
(* candidate visit and its own session (SpecRace).  clusters[d] is the       *)
(* candidate of device d; arg[d] is where its invocation stands (pc), the    *)
(* Place rows its session loaded (seen) and the Place row it will write      *)
(* (place); ret is the session holding the database's write lock.  The       *)
(* geocoder gives no answer.                                                 *)

Racers == {"d1", "d2"}

InitRace ==
    /\ locations = [d \in Devices |-> <<>>]
    /\ \E found \in FoundTables : visits = found.visits /\ places = found.places
    /\ config = SeededConfig
    /\ last = [dev |-> "none", ret |-> 0, again |-> FALSE]
    /\ GeocoderOff
    /\ clusters \in [Racers -> {StayAt(1, Metres(m)) : m \in PositionsM}]
    /\ arg = [d \in Racers |-> [pc |-> "start", seen |-> {}, place |-> <<>>]]
    /\ thr = ModuleDefaults
    /\ ret = "none"
    /\ called = "race"

\* snap_to_place's query: the committed Place rows of the user.
ReadPlaces(d) ==
    /\ arg[d].pc = "start"
    /\ arg' = [arg EXCEPT ![d].pc = "read", ![d].seen = places]
    /\ UNCHANGED <<ret, thr, clusters, called, PipelineIdle>>

\* The place the session settles on among the rows it loaded, with the
\* counters the loop gives it; a new place gets its id from the table as it
\* is when the INSERT is flushed.
SettledPlace(d) ==
    LET snap == snap_to_place(arg[d].seen, Owner[d], clusters[d].latitude, thr)
    IN [(IF snap.place \in arg[d].seen THEN snap.place
         ELSE [snap.place EXCEPT !.id = NextPlaceId(places)])
        EXCEPT !.visit_count = @ + 1,
               !.total_duration_seconds = @ + clusters[d].duration_seconds]

CreatesPlace(d) ==
    snap_to_place(arg[d].seen, Owner[d], clusters[d].latitude, thr).place
        \notin arg[d].seen

\* The rest of snap_to_place and of the loop: the flush of a new place takes
\* the write lock and waits while another session holds it.
SnapAndCount(d) ==
    /\ arg[d].pc = "read"
    /\ IF CreatesPlace(d)
       THEN ret = "none" /\ ret' = d
       ELSE ret' = ret
    /\ arg' = [arg EXCEPT ![d].pc = "counted", ![d].place = <<SettledPlace(d)>>]
    /\ UNCHANGED <<thr, clusters, called, PipelineIdle>>

\* db.commit(): the session's Place row and Visit row are written; it waits
\* while another session holds the write lock.
CommitRacer(d) ==
    /\ arg[d].pc = "counted"
    /\ ret \in {"none", d}
    /\ places' = {p \in places : p.id # arg[d].place[1].id} \cup {arg[d].place[1]}
    /\ visits' = Append(visits,
                        [device_id |-> d,
                         place_id |-> arg[d].place[1].id,
                         latitude |-> clusters[d].latitude,
                         arrival |-> clusters[d].arrival,
                         departure |-> clusters[d].departure,
                         duration_seconds |-> clusters[d].duration_seconds,
                         address |-> arg[d].place[1].address])
    /\ ret' = "none"
    /\ arg' = [arg EXCEPT ![d].pc = "done"]
    /\ UNCHANGED <<locations, config, last, nominatim, thr, clusters, called>>

NextRace ==
    \E d \in Racers : ReadPlaces(d) \/ SnapAndCount(d) \/ CommitRacer(d)

SpecRace == InitRace /\ [][NextRace]_vars

\* The invocation for device a run to its end, then the one for device b, on
\* the tables found: the places and the visits they leave, as a set.
SerialOutcome(found, a, b) ==
    LET run == PersistOne(PersistOne([places |-> found.places, new_visits |-> <<>>],
                                     clusters[a], a, Owner[a], thr, <<>>),
                          clusters[b], b, Owner[b], thr, <<>>)
    IN [places |-> run.places,
        visits |-> {found.visits[i] : i \in 1..Len(found.visits)}
                     \cup {run.new_visits[i] : i \in 1..Len(run.new_visits)}]

\* C26: when both invocations have committed, the visits, places and place
\* counters are those one of the two serial orders leaves.
C26_SerialOutcome ==
    (\A d \in Racers : arg[d].pc = "done") =>
        \E found \in FoundTables :
            /\ SubSeq(visits, 1, Len(found.visits)) = found.visits
            /\ [places |-> places,
                visits |-> {visits[i] : i \in 1..Len(visits)}]
                  \in {SerialOutcome(found, "d1", "d2"),
                       SerialOutcome(found, "d2", "d1")}

-----------------------------------------------------------------------------
(* The regeneration journal: pages.do_regenerate, step by step.  ret is the *)
(* ReprocessingJob table in id order; arg is the handler's frame: where it  *)
(* stands, its job_id, and what every reprocess_all call so far did.        *)

\* The jobs one user starts.
MaxJobs == 2

\* str(inp.value) of a cleared number input: "None", which float() rejects.
Unparsable == -1

ClearedConfig == [QuickConfig EXCEPT !.visit_radius_m = Unparsable]

\* get_thresholds raises ValueError on a value that is no number.
Raises(cfg) == \E k \in DOMAIN cfg : cfg[k] = Unparsable

ValueError == "could not convert string to float: 'None'"

\* ReprocessingJob(user_id=..., status="running", started_at=utcnow())
NewJob(u) ==
    [user_id |-> u, status |-> "running", started_at |-> <<"utcnow">>,
     finished_at |-> <<>>, visits_created |-> <<>>, places_created |-> <<>>,
     error_message |-> <<>>]

Completed(job, result) ==
    [job EXCEPT !.status = "completed",
                !.finished_at = <<"utcnow">>,
                !.visits_created = <<result.visits_created>>,
                !.places_created = <<result.places_created>>]

\* The except branch without its error_message.
FailedWithoutMessage(job, e) ==
    [job EXCEPT !.status = "failed", !.finished_at = <<"utcnow">>]

Failed(job, e) ==
    [job EXCEPT !.status = "failed",
                !.finished_at = <<"utcnow">>,
                !.error_message = <<e>>]

InitJob ==
    /\ locations = [d \in Devices |-> <<>>]
    /\ visits = <<>>
    /\ places = {}
    /\ config = SeededConfig
    /\ last = [dev |-> "none", ret |-> 0, again |-> FALSE]
    /\ GeocoderOff
    /\ arg = [pc |-> "idle", job_id |-> 0, outcomes |-> <<>>]
    /\ thr = ModuleDefaults
    /\ ret = <<>>
    /\ clusters = <<>>
    /\ called = "do_regenerate"

\* api.upload_locations from the thread pool: under a setting that is no
\* number the rows are committed and process_device_locations raises.
JobUpload ==
    \E batch \in FleetBatches :
        IF Raises(config)
        THEN /\ TotalRows(locations) + Len(batch) <= MaxLen
             /\ locations' = [locations EXCEPT !["d1"] = InsertRows(locations["d1"], batch)]
             /\ last' = [dev |-> "none", ret |-> 0, again |-> FALSE]
             /\ UNCHANGED <<visits, places, config, HarnessIdle>>
        ELSE \E geo \in GeoRuns(Len(PendingCandidates(InsertRows(locations["d1"], batch),
                                                      visits, "d1"))) :
                 UploadLocations("d1", batch, geo)

\* pages.save_thresholds, between two handlers of the page.
JobConfigure ==
    /\ arg.pc = "idle"
    /\ \E c \in ConfigChoices \cup {ClearedConfig} : SaveThresholds(c)

\* jdb.add(job); jdb.commit(); job_id = job.id
CreateJob ==
    /\ arg.pc = "idle"
    /\ Len(ret) < MaxJobs
    /\ ret' = Append(ret, NewJob("u1"))
    /\ arg' = [arg EXCEPT !.pc = "running", !.job_id = Len(ret) + 1]
    /\ UNCHANGED <<PipelineIdle, thr, clusters, called>>

Outcome(kind, vc, pc, e) ==
    [kind |-> kind, visits_created |-> vc, places_created |-> pc, error |-> e]

Returned(run) ==
    /\ AllProcessed(run)
    /\ arg' = [arg EXCEPT !.pc = "returned",
                          !.outcomes = Append(@, Outcome("returned", run.visits_created,
                                                         run.places_created, ""))]

\* result = reprocess_all(rdb, current_user.id), or the exception it raises
\* out of get_thresholds before it has written anything.
RunReprocess ==
    /\ arg.pc = "running"
    /\ IF Raises(config)
       THEN /\ arg' = [arg EXCEPT !.pc = "raised",
                                  !.outcomes = Append(@, Outcome("raised", 0, 0, ValueError))]
            /\ UNCHANGED <<visits, places, last>>
       ELSE \E g1 \in GeoRuns(GeoNeeded("u1", "d1")) :
                Returned(reprocess_all(locations, visits, places, config, "u1",
                                       [d \in Devices |-> IF d = "d1" THEN g1 ELSE <<>>]))
    /\ UNCHANGED <<locations, config, nominatim, thr, ret, clusters, called>>

\* The try block after reprocess_all returned.
CompleteJob ==
    /\ arg.pc = "returned"
    /\ ret' = [ret EXCEPT ![arg.job_id] = Completed(@, arg.outcomes[arg.job_id])]
    /\ arg' = [arg EXCEPT !.pc = "idle"]
    /\ UNCHANGED <<PipelineIdle, thr, clusters, called>>

\* The except branch.
FailJob ==
    /\ arg.pc = "raised"
    /\ ret' = [ret EXCEPT ![arg.job_id] = Failed(@, arg.outcomes[arg.job_id].error)]
    /\ arg' = [arg EXCEPT !.pc = "idle"]
    /\ UNCHANGED <<PipelineIdle, thr, clusters, called>>

NextJob ==
    \/ JobUpload
    \/ JobConfigure
    \/ CreateJob
    \/ RunReprocess
    \/ CompleteJob
    \/ FailJob

SpecJob == InitJob /\ [][NextJob]_vars

InFlight(j) == j = arg.job_id /\ arg.pc # "idle"

\* The row of job j says what its reprocess_all call did.
FollowsOutcome(j) ==
    IF InFlight(j)
    THEN ret[j].status = "running" /\ ret[j].finished_at = <<>>
    ELSE IF arg.outcomes[j].kind = "returned"
         THEN /\ ret[j].status = "completed"
              /\ ret[j].finished_at # <<>>
              /\ ret[j].visits_created = <<arg.outcomes[j].visits_created>>
              /\ ret[j].places_created = <<arg.outcomes[j].places_created>>
         ELSE /\ ret[j].status = "failed"
              /\ ret[j].finished_at # <<>>
              /\ ret[j].error_message = <<arg.outcomes[j].error>>

JobsFollowOutcome == \A j \in 1..Len(ret) : FollowsOutcome(j)

SettledJobsStay ==
    \A j \in 1..Len(ret) :
        ret[j].status \in {"completed", "failed"} => ret'[j] = ret[j]

\* C27: a job is 'running' from its creation until reprocess_all is over;
\* once the handler is back it is 'completed' with finished_at and the counts
\* reprocess_all returned, or 'failed' with finished_at and the error it
\* raised; a completed or failed job never changes again.
C27_JobStatus == [](JobsFollowOutcome) /\ [][SettledJobsStay]_vars

\* One job completed with a visit and a place, another failed, none running.
C27_Witness ==
    /\ arg.pc = "idle"
    /\ \E i, j \in 1..Len(ret) :
          /\ ret[i].status = "completed"
          /\ ret[i].visits_created = <<1>>
          /\ ret[i].places_created = <<1>>
          /\ ret[j].status = "failed"
          /\ ret[j].error_message = <<ValueError>>

-----------------------------------------------------------------------------
(* Current positions: api.update_positions and api.relay_positions.  ret is *)
(* the CurrentPosition table in id order, clusters the batch of the last   *)
(* request, arg what that request was and what it answered.  A row's sent  *)
(* is the instant its timestamp was sent for, which the table does not      *)
(* keep.  Time is in hours.                                                 *)

\* The latest instant a position is sent for.
MaxInstant == 1

\* The UTC offsets a timestamp string carries: "Z" or "+00:00", and "+01:00".
UtcOffsets == {0, 1}

\* A timestamp string: an instant, written with an offset.
SentTimestamps == [instant : 0..MaxInstant, offset : UtcOffsets]

\* fromisoformat(s.replace("Z", "+00:00")).replace(tzinfo=None): the wall
\* clock of the string, its offset dropped.
ParseTimestamp(ts) == ts.instant + ts.offset

\* Device ids a relayed position can name: a device, and an id of none.
RelayTargets == {"d1", "d4"}

RelayedPositions ==
    [device_id : RelayTargets, latitude : {0, 1}, timestamp : SentTimestamps]

\* One position, or two for the device.
RelayBatches ==
    {<<p>> : p \in RelayedPositions}
        \cup {<<p, q>> : p, q \in {r \in RelayedPositions : r.device_id = "d1"}}

PositionBatches ==
    {<<[latitude |-> lat, timestamp |-> ts]>> : lat \in {0, 1}, ts \in SentTimestamps}

\* db.query(CurrentPosition).filter(device_id == d).first(): its index, or 0.
FirstOf(rows, d) ==
    IF \E i \in 1..Len(rows) : rows[i].device_id = d
    THEN CHOOSE i \in 1..Len(rows) :
             /\ rows[i].device_id = d
             /\ \A k \in 1..(i - 1) : rows[k].device_id # d
    ELSE 0

CurrentRow(d, user_id, pos, by) ==
    [device_id |-> d, user_id |-> user_id, latitude |-> pos.latitude,
     timestamp |-> ParseTimestamp(pos.timestamp), relayed_by_device_id |-> by,
     sent |-> pos.timestamp.instant]

\* The loop of relay_positions on a session that does not autoflush: a query
\* sees the rows of the table, as this session changed them, and none of the
\* rows it added.
RECURSIVE RelayLoop(_, _, _)
RelayLoop(positions, relay, s) ==
    IF positions = <<>> THEN s
    ELSE IF FirstOf(s.rows, Head(positions).device_id) # 0
         THEN IF s.rows[FirstOf(s.rows, Head(positions).device_id)].timestamp
                     >= ParseTimestamp(Head(positions).timestamp)
              THEN RelayLoop(Tail(positions), relay, s)
              ELSE RelayLoop(Tail(positions), relay,
                             [s EXCEPT !.rows[FirstOf(s.rows, Head(positions).device_id)] =
                                           [@ EXCEPT !.latitude = Head(positions).latitude,
                                                     !.timestamp = ParseTimestamp(Head(positions).timestamp),
                                                     !.relayed_by_device_id = <<relay>>,
                                                     !.sent = Head(positions).timestamp.instant],
                                       !.updated = @ + 1])
         ELSE IF Head(positions).device_id \notin Devices
              THEN RelayLoop(Tail(positions), relay, s)
              ELSE RelayLoop(Tail(positions), relay,
                             [s EXCEPT !.added = Append(@, CurrentRow(Head(positions).device_id,
                                                                      Owner[Head(positions).device_id],
                                                                      Head(positions), <<relay>>)),
                                       !.updated = @ + 1])

\* The loop of update_positions, on the same kind of session.
RECURSIVE UpdateLoop(_, _, _, _)
UpdateLoop(positions, d, user_id, s) ==
    IF positions = <<>> THEN s
    ELSE IF FirstOf(s.rows, d) # 0
         THEN UpdateLoop(Tail(positions), d, user_id,
                         [s EXCEPT !.rows[FirstOf(s.rows, d)] =
                                       [@ EXCEPT !.latitude = Head(positions).latitude,
                                                 !.timestamp = ParseTimestamp(Head(positions).timestamp),
                                                 !.sent = Head(positions).timestamp.instant]])
         ELSE UpdateLoop(Tail(positions), d, user_id,
                         [s EXCEPT !.added = Append(@, CurrentRow(d, user_id, Head(positions), <<>>))])

SessionOn(rows) == [rows |-> rows, added |-> <<>>, updated |-> 0]

\* Two rows of one device: what a unique device_id column refuses.
Duplicated(rows) ==
    \E i, k \in 1..Len(rows) : i # k /\ rows[i].device_id = rows[k].device_id

\* db.commit(): the table after it and the status of the response; under a
\* unique device_id the commit of a second row raises and nothing is kept.
CommitPositions(s, handler, relay) ==
    IF arg.unique /\ Duplicated(s.rows \o s.added)
    THEN /\ ret' = ret
         /\ arg' = [arg EXCEPT !.handler = handler, !.relay = relay,
                               !.status = 500, !.relayed = 0]
    ELSE /\ ret' = s.rows \o s.added
         /\ arg' = [arg EXCEPT !.handler = handler, !.relay = relay,
                               !.status = 200, !.relayed = s.updated]

InitRelay ==
    /\ locations = [d \in Devices |-> <<>>]
    /\ visits = <<>>
    /\ places = {}
    /\ config = SeededConfig
    /\ last = [dev |-> "none", ret |-> 0, again |-> FALSE]
    /\ GeocoderOff
    /\ \E unique \in BOOLEAN :
           arg = [unique |-> unique, handler |-> "none", relay |-> "none",
                  status |-> 200, relayed |-> 0]
    /\ thr = ModuleDefaults
    /\ ret = <<>>
    /\ clusters = <<>>
    /\ called = "positions"

\* POST /positions of u1 for its device d1.
UpdatePositions ==
    \E batch \in PositionBatches :
        /\ clusters' = batch
        /\ CommitPositions(UpdateLoop(batch, "d1", "u1", SessionOn(ret)), "update_positions", "none")
        /\ UNCHANGED <<PipelineIdle, thr, called>>

\* POST /positions/relay of u1: through its device d2, or through d3 which is
\* not its own (404).
RelayPositions ==
    \E relay \in {"d2", "d3"}, batch \in RelayBatches :
        /\ clusters' = batch
        /\ IF Owner[relay] # "u1"
           THEN /\ ret' = ret
                /\ arg' = [arg EXCEPT !.handler = "relay_positions", !.relay = relay,
                                      !.status = 404, !.relayed = 0]
           ELSE CommitPositions(RelayLoop(batch, relay, SessionOn(ret)), "relay_positions", relay)
        /\ UNCHANGED <<PipelineIdle, thr, called>>

NextRelay ==
    \/ UpdatePositions
    \/ RelayPositions

SpecRelay == InitRelay /\ [][NextRelay]_vars

\* The step is a relay request that was answered.
RelayAnswered == arg'.handler = "relay_positions" /\ arg'.status = 200

HasStored(rows, d) == FirstOf(rows, d) # 0

Stored(rows, d) == rows[FirstOf(rows, d)]

\* Position k of the batch is not newer than what is stored for its device.
Stale(batch, k, rows) ==
    /\ HasStored(rows, batch[k].device_id)
    /\ batch[k].timestamp.instant <= Stored(rows, batch[k].device_id).sent

StaleIgnored ==
    \A d \in RelayTargets :
        (/\ HasStored(ret, d)
         /\ \A k \in 1..Len(clusters') : clusters'[k].device_id = d => Stale(clusters', k, ret))
            => Stored(ret', d) = Stored(ret, d)

StaleUncounted ==
    (\A k \in 1..Len(clusters') : Stale(clusters', k, ret)) => arg'.relayed = 0

NewerReplaces ==
    (/\ Len(clusters') = 1
     /\ HasStored(ret, clusters'[1].device_id)
     /\ clusters'[1].timestamp.instant > Stored(ret, clusters'[1].device_id).sent)
        => /\ Stored(ret', clusters'[1].device_id).latitude = clusters'[1].latitude
           /\ Stored(ret', clusters'[1].device_id).sent = clusters'[1].timestamp.instant
           /\ Stored(ret', clusters'[1].device_id).relayed_by_device_id = <<arg'.relay>>
           /\ arg'.relayed = 1

NeverDecreases ==
    \A d \in RelayTargets :
        HasStored(ret, d) => /\ HasStored(ret', d)
                             /\ Stored(ret', d).sent >= Stored(ret, d).sent

\* C28: a relayed position that is not newer than the stored current position
\* of its device changes nothing of it and is not counted, a strictly newer
\* one replaces it, and a relay request never takes a current position back
\* in time.
C28_RelayDedup ==
    [][RelayAnswered => StaleIgnored /\ StaleUncounted /\ NewerReplaces /\ NeverDecreases]_vars

-----------------------------------------------------------------------------
(* Place separation *)

\* Two rows of the Place table that belong to one user.
SameUsersPlaces(p, q) == p.id # q.id /\ p.user_id = q.user_id

\* C29: after any sequence of uploads, reprocess_visits and reprocess_all
\* calls, run one after the other under one place_snap_radius_m, any two
\* places of one user are more than place_snap_radius_m apart.
C29_PlaceSeparation ==
    \A p, q \in places :
        SameUsersPlaces(p, q)
            => haversine_m(p.latitude, q.latitude)
                   > Metres(get_thresholds(config).place_snap_radius_m)

\* Two places of one user, each with a visit of its own.
C29_Witness ==
    \E p, q \in places :
        /\ SameUsersPlaces(p, q)
        /\ \E i, k \in 1..Len(visits) :
               visits[i].place_id = p.id /\ visits[k].place_id = q.id

-----------------------------------------------------------------------------
(* Batches: one device reporting in order under thresholds that stay as     *)
(* they are, every upload processed as it comes in, and the regenerate      *)
(* button.                                                                  *)

InitBatch ==
    /\ locations = [d \in Devices |-> <<>>]
    /\ visits = <<>>
    /\ places = {}
    /\ config = QuickConfig
    /\ last = [dev |-> "none", ret |-> 0, again |-> FALSE]
    /\ HarnessOff

NextBatch ==
    \/ UploadInOrder({"d1"}, Batches)
    \/ Regenerate({"u1"})

SpecBatch == InitBatch /\ [][NextBatch]_vars

VisitKey(v) ==
    [arrival |-> v.arrival, departure |-> v.departure, latitude |-> v.latitude]

KeysOf(vs) == {VisitKey(vs[i]) : i \in 1..Len(vs)}

\* What one call on all the rows of the device persists for it.
InOneCall(d) == Candidates(locations[d], DatetimeMin, get_thresholds(config))

DisjointInTime(vs) ==
    \A i, k \in 1..Len(vs) :
        i # k => vs[i].departure < vs[k].arrival \/ vs[k].departure < vs[i].arrival

\* C30: under unchanged thresholds the visits persisted for a device by
\* processing after each batch are, by arrival, departure and centroid, the
\* visits one call on the same points persists, and no two of them overlap
\* in time.
C30_BatchInvariance ==
    /\ KeysOf(VisitsOf(visits, "d1")) = KeysOf(InOneCall("d1"))
    /\ DisjointInTime(VisitsOf(visits, "d1"))

====
